---- MODULE Spec2Model ----
(***************************************************************************)
(* Verification model of the aoc-2022 puzzle solvers (Rust).  Each puzzle  *)
(* binary is an independent program, so the module holds one group of      *)
(* variables and one specification per program that is examined:           *)
(*   SpecReadLines  src/lib.rs      read_lines (C3)                         *)
(*   SpecDay12   src/bin/day12.rs  elevation map, shortest path (C4, C5)   *)
(*   SpecDay16   src/bin/day16.rs  valves, strategies of part1 (C8)        *)
(*   SpecDay17   src/bin/day17.rs  falling rocks, cycle detection (C6)     *)
(*   SpecDay19   src/bin/day19.rs  robot-building search (C7)              *)
(*   SpecDay9    src/bin/day9.rs   rope simulation (C9, C10)               *)
(*   SpecMain    src/bin/day*.rs   fn main and what it prints (C1, C2)     *)
(*   SpecDay10   src/bin/day10.rs  the loops of part1 and part2 (C11, C12) *)
(*   SpecDay11   src/bin/day11.rs  the turns of part2 (C13)                *)
(*   SpecDay15   src/bin/day15.rs  part1 on a row (C16)                    *)
(*   SpecDay5    src/bin/day5.rs   the steps of the two cranes (C17)       *)
(*   SpecDay14Part1, SpecDay14Part2                                       *)
(*               src/bin/day14.rs  falling sand (C14, C15)                 *)
(* A specification leaves the variables of the other groups at their idle  *)
(* value.                                                                  *)
(***************************************************************************)
EXTENDS Integers, Sequences, FiniteSets, TLC

\* Option<T>
None == [tag |-> "None"]
Some(v) == [tag |-> "Some", value |-> v]
IsSome(o) == o.tag = "Some"

Abs(x) == IF x < 0 THEN -x ELSE x
Sign(x) == IF x > 0 THEN 1 ELSE IF x < 0 THEN -1 ELSE 0
Max(a, b) == IF a >= b THEN a ELSE b
Min(a, b) == IF a <= b THEN a ELSE b

\* Result<T, E>
Ok(v) == [tag |-> "Ok", value |-> v]
Err(e) == [tag |-> "Err", error |-> e]
IsOk(r) == r.tag = "Ok"
IsErr(r) == r.tag = "Err"

\* F applied to the value of x, which is computed once (`let v = x; F(v)`).
WithValue(x, F(_)) == CHOOSE r \in {F(v) : v \in {x}} : TRUE

\* All sequences over S of length at most n.
SeqsUpTo(S, n) == UNION {[1..k -> S] : k \in 0..n}

VARIABLES
    \* ---- lib.rs: read_lines ----
    fs_file,              \* File::open(path): Err (cannot be opened) or Ok(the line reads of the file)
    rl_pc,                \* position inside read_lines
    rl_next,              \* index of the next item of reader.lines()
    rl_collected,         \* the Vec<String> that collect() is building
    rl_result,            \* io::Result<Vec<String>> returned, None before the return
    \* ---- day12 ----
    d12_input,            \* input: &Vec<String>, each row a sequence of characters
    d12_fn,               \* which entry point runs: "part1", "part2" or a direct "lsp" call
    d12_pc,               \* position inside it
    d12_map,              \* ElevationMap { width, height, storage, start, end }
    d12_positions,        \* part2: the 'a' positions still to be searched
    d12_best,             \* part2: Option<usize>, the .min() so far
    d12_start,            \* length_of_shortest_path: its argument `start`
    queue,                \* length_of_shortest_path: the BinaryHeap
    previous,             \* length_of_shortest_path: the HashMap `previous`
    d12_lsp,              \* length_of_shortest_path: Option<usize> it returned
    d12_outcome,          \* what part1/part2 ended with: Ok, Err or a panic
    \* ---- day16 ----
    valves,               \* HashMap<String, Valve>: label -> [flow_rate, tunnels]
    d16_time_limit,       \* time_limit handed to generate_strategies
    d16_pc,               \* "called" before part1 runs, "returned" after
    d16_result,           \* the Result<u64, Day16Error> returned
    \* ---- day17 ----
    cave_state,           \* CaveState { shape_index, jet_index, jet_pattern, fallen_rocks, heights }
    cycle_memory,         \* part2: HashMap<CycleState, usize>, as a set of entries
    height_memory,        \* part2: Vec<u64>
    d17_i,                \* part2: the loop variable i
    d17_pc,               \* "loop" while part2 searches for a repeat, "detected" after
    d17_previous_i,       \* part2: previous_i of the repeat that was found
    d17_current_height,   \* part2: current_height when the repeat was found
    d17_dropped,          \* how many times drop_rock has been called on cave_state
    \* ---- day19 ----
    blueprint,            \* Blueprint handed to max_geodes
    time_limit,           \* time_limit handed to max_geodes
    d19_pc,               \* "called" before max_geodes runs, "returned" after
    d19_result,           \* the u64 that max_geodes returned
    \* ---- day9 ----
    rope_state,           \* RopeState { head_position, tail_displacement }
    extended_rope_state,  \* ExtendedRopeState { head_position, knot_displacements }
    offset,               \* last (isize, isize) handed to Displacement::from
    displacement,         \* what Displacement::from returned for it
    \* ---- fn main of a binary ----
    binary,               \* which binary runs
    main_file,            \* the file at INPUT_PATH: Err (cannot be opened) or Ok(its line reads)
    main_pc,              \* the statement of main that runs next, or how main ended
    main_input,           \* let input = read_lines(INPUT_PATH)?
    stdout,               \* the lines written to standard output so far
    main_exit,            \* what main returned: None while it runs, Ok(()) or Err(e)
    \* ---- day10 ----
    d10_input,            \* input: &Vec<String>
    d10_fn,               \* which function runs: "part1" or "part2"
    d10_pc,               \* "called", "loop" (at the while condition) or "returned"
    d10_instructions,     \* instructions: the VecDeque<Instruction> left
    d10_state,            \* State { cycle_number, x_register_value, in_progress }
    d10_total,            \* part1: total_signal_strength so far
    d10_crt,              \* part2: crt.display
    d10_result,           \* what the function returned, None before
    \* ---- day11 ----
    monkeys,              \* part2: Vec<Monkey>, indexed from 0
    activity,             \* part2: Vec<usize>, indexed from 0
    d11_i,                \* part2: the monkey whose turn is next
    d11_turns,            \* how many turns have been taken
    d11_thrown,           \* the Vec<ThrownItem> of the last turn
    unreduced_items,      \* the items of a run whose worry levels are never reduced
    unreduced_activity,   \* the activity of that run
    unreduced_thrown,     \* what the last turn of that run threw
    \* ---- day14 ----
    rock_structures,      \* what parse_rock_structures returned: Vec<RockStructure>
    d14_fn,               \* which function runs: "part1" or "part2"
    d14_pc,               \* "called", "loop", "returned" or "panicked"
    cave,                 \* part1: Cave, part2: Cave2
    sand_count,           \* the counter of the while loop
    d14_result,           \* what the function returned, None before
    debug_assertions,     \* whether the build checks debug_assert_eq!
    \* ---- day15 ----
    sensor_reports,       \* what parse_sensor_reports returned: Vec<SensorReport>
    d15_row,              \* the argument y of part1
    d15_pc,               \* "called" or "returned"
    d15_result,           \* what part1 returned, None before
    \* ---- day5 ----
    crate_arrangement,    \* CrateArrangement: the stacks, each from bottom to top
    crane,                \* "part1" (apply_step) or "part2" (apply_step_2)
    d5_pc,                \* "loop", "returned" or "panicked"
    steps_applied,        \* how many steps the loop has applied
    d5_result             \* what the function returned, None before

d5vars == <<crate_arrangement, crane, d5_pc, steps_applied, d5_result>>

d15vars == <<sensor_reports, d15_row, d15_pc, d15_result>>

d9vars == <<rope_state, extended_rope_state, offset, displacement>>

mainvars == <<binary, main_file, main_pc, main_input, stdout, main_exit>>

d11vars == <<monkeys, activity, d11_i, d11_turns, d11_thrown,
             unreduced_items, unreduced_activity, unreduced_thrown>>

d14vars == <<rock_structures, d14_fn, d14_pc, cave, sand_count, d14_result,
             debug_assertions>>

d10vars == <<d10_input, d10_fn, d10_pc, d10_instructions, d10_state,
             d10_total, d10_crt, d10_result>>

rlvars == <<fs_file, rl_pc, rl_next, rl_collected, rl_result>>

d12vars == <<d12_input, d12_fn, d12_pc, d12_map, d12_positions, d12_best,
             d12_start, queue, previous, d12_lsp, d12_outcome>>

d16vars == <<valves, d16_time_limit, d16_pc, d16_result>>

d17vars == <<cave_state, cycle_memory, height_memory, d17_i, d17_pc,
             d17_previous_i, d17_current_height, d17_dropped>>

d19vars == <<blueprint, time_limit, d19_pc, d19_result>>

vars == <<rlvars, d12vars, d16vars, d17vars, d19vars, d9vars, mainvars, d10vars, d11vars, d14vars, d15vars,
          d5vars>>

\* The variables of the other programs, which a step of one program leaves alone.
NotReadLines == <<d12vars, d16vars, d17vars, d19vars, d9vars, mainvars, d10vars, d11vars, d14vars, d15vars, d5vars>>
NotDay12 == <<rlvars, d16vars, d17vars, d19vars, d9vars, mainvars, d10vars, d11vars, d14vars, d15vars, d5vars>>
NotDay16 == <<rlvars, d12vars, d17vars, d19vars, d9vars, mainvars, d10vars, d11vars, d14vars, d15vars, d5vars>>
NotDay17 == <<rlvars, d12vars, d16vars, d19vars, d9vars, mainvars, d10vars, d11vars, d14vars, d15vars, d5vars>>
NotDay19 == <<rlvars, d12vars, d16vars, d17vars, d9vars, mainvars, d10vars, d11vars, d14vars, d15vars, d5vars>>
NotDay9 == <<rlvars, d12vars, d16vars, d17vars, d19vars, mainvars, d10vars, d11vars, d14vars, d15vars, d5vars>>
NotMain == <<rlvars, d12vars, d16vars, d17vars, d19vars, d9vars, d10vars, d11vars, d14vars, d15vars, d5vars>>
NotDay10 == <<rlvars, d12vars, d16vars, d17vars, d19vars, d9vars, mainvars, d11vars, d14vars, d15vars, d5vars>>
NotDay11 == <<rlvars, d12vars, d16vars, d17vars, d19vars, d9vars, mainvars, d10vars, d14vars, d15vars, d5vars>>
NotDay14 == <<rlvars, d12vars, d16vars, d17vars, d19vars, d9vars, mainvars, d10vars, d11vars, d15vars, d5vars>>
NotDay15 == <<rlvars, d12vars, d16vars, d17vars, d19vars, d9vars, mainvars, d10vars, d11vars, d14vars, d5vars>>
NotDay5 == <<rlvars, d12vars, d16vars, d17vars, d19vars, d9vars, mainvars, d10vars, d11vars, d14vars, d15vars>>

IdleReadLines ==
    /\ fs_file = Err("NotFound")
    /\ rl_pc = "idle"
    /\ rl_next = 0
    /\ rl_collected = <<>>
    /\ rl_result = None

IdleDay12 ==
    /\ d12_input = <<>>
    /\ d12_fn = "idle"
    /\ d12_pc = "idle"
    /\ d12_map = None
    /\ d12_positions = <<>>
    /\ d12_best = None
    /\ d12_start = <<0, 0>>
    /\ queue = {}
    /\ previous = {}
    /\ d12_lsp = None
    /\ d12_outcome = None

IdleDay16 ==
    /\ valves = <<>>
    /\ d16_time_limit = 0
    /\ d16_pc = "idle"
    /\ d16_result = None

IdleDay17 ==
    /\ cave_state = [shape_index |-> 0, jet_index |-> 0, jet_pattern |-> <<>>,
                     fallen_rocks |-> {}, heights |-> <<0, 0, 0, 0, 0, 0, 0>>]
    /\ cycle_memory = {}
    /\ height_memory = <<>>
    /\ d17_i = 0
    /\ d17_pc = "idle"
    /\ d17_previous_i = 0
    /\ d17_current_height = 0
    /\ d17_dropped = 0

IdleDay19 ==
    /\ blueprint = [ore_robot_ore_cost |-> 0, clay_robot_ore_cost |-> 0,
                    obsidian_robot_ore_cost |-> 0, obsidian_robot_clay_cost |-> 0,
                    geode_robot_ore_cost |-> 0, geode_robot_obsidian_cost |-> 0]
    /\ time_limit = 0
    /\ d19_pc = "idle"
    /\ d19_result = 0

IdleDay9 ==
    /\ rope_state = [head_position |-> <<0, 0>>, tail_displacement |-> "Center"]
    /\ extended_rope_state = [head_position |-> <<0, 0>>, knot_displacements |-> <<>>]
    /\ offset = <<0, 0>>
    /\ displacement = "Center"

IdleMain ==
    /\ binary = "idle"
    /\ main_file = Err("NotFound")
    /\ main_pc = "idle"
    /\ main_input = <<>>
    /\ stdout = <<>>
    /\ main_exit = None

IdleDay10 ==
    /\ d10_input = <<>>
    /\ d10_fn = "idle"
    /\ d10_pc = "idle"
    /\ d10_instructions = <<>>
    /\ d10_state = [cycle_number |-> 0, x_register_value |-> 1, in_progress |-> None]
    /\ d10_total = 0
    /\ d10_crt = <<>>
    /\ d10_result = None

IdleDay11 ==
    /\ monkeys = <<>>
    /\ activity = <<>>
    /\ d11_i = 0
    /\ d11_turns = 0
    /\ d11_thrown = <<>>
    /\ unreduced_items = <<>>
    /\ unreduced_activity = <<>>
    /\ unreduced_thrown = <<>>

IdleDay14 ==
    /\ rock_structures = <<>>
    /\ d14_fn = "idle"
    /\ d14_pc = "idle"
    /\ cave = None
    /\ sand_count = 0
    /\ d14_result = None
    /\ debug_assertions = FALSE

IdleDay15 ==
    /\ sensor_reports = <<>>
    /\ d15_row = 0
    /\ d15_pc = "idle"
    /\ d15_result = None

IdleDay5 ==
    /\ crate_arrangement = <<>>
    /\ crane = "idle"
    /\ d5_pc = "idle"
    /\ steps_applied = 0
    /\ d5_result = None

IdleNotReadLines == IdleDay12 /\ IdleDay16 /\ IdleDay17 /\ IdleDay19 /\ IdleDay9 /\ IdleMain /\ IdleDay10 /\ IdleDay11 /\ IdleDay14 /\ IdleDay15 /\ IdleDay5
IdleNotDay12 == IdleReadLines /\ IdleDay16 /\ IdleDay17 /\ IdleDay19 /\ IdleDay9 /\ IdleMain /\ IdleDay10 /\ IdleDay11 /\ IdleDay14 /\ IdleDay15 /\ IdleDay5
IdleNotDay16 == IdleReadLines /\ IdleDay12 /\ IdleDay17 /\ IdleDay19 /\ IdleDay9 /\ IdleMain /\ IdleDay10 /\ IdleDay11 /\ IdleDay14 /\ IdleDay15 /\ IdleDay5
IdleNotDay17 == IdleReadLines /\ IdleDay12 /\ IdleDay16 /\ IdleDay19 /\ IdleDay9 /\ IdleMain /\ IdleDay10 /\ IdleDay11 /\ IdleDay14 /\ IdleDay15 /\ IdleDay5
IdleNotDay19 == IdleReadLines /\ IdleDay12 /\ IdleDay16 /\ IdleDay17 /\ IdleDay9 /\ IdleMain /\ IdleDay10 /\ IdleDay11 /\ IdleDay14 /\ IdleDay15 /\ IdleDay5
IdleNotDay9 == IdleReadLines /\ IdleDay12 /\ IdleDay16 /\ IdleDay17 /\ IdleDay19 /\ IdleMain /\ IdleDay10 /\ IdleDay11 /\ IdleDay14 /\ IdleDay15 /\ IdleDay5
IdleNotMain == IdleReadLines /\ IdleDay12 /\ IdleDay16 /\ IdleDay17 /\ IdleDay19 /\ IdleDay9 /\ IdleDay10 /\ IdleDay11 /\ IdleDay14 /\ IdleDay15 /\ IdleDay5
IdleNotDay10 == IdleReadLines /\ IdleDay12 /\ IdleDay16 /\ IdleDay17 /\ IdleDay19 /\ IdleDay9 /\ IdleMain /\ IdleDay11 /\ IdleDay14 /\ IdleDay15 /\ IdleDay5
IdleNotDay11 == IdleReadLines /\ IdleDay12 /\ IdleDay16 /\ IdleDay17 /\ IdleDay19 /\ IdleDay9 /\ IdleMain /\ IdleDay10 /\ IdleDay14 /\ IdleDay15 /\ IdleDay5
IdleNotDay14 == IdleReadLines /\ IdleDay12 /\ IdleDay16 /\ IdleDay17 /\ IdleDay19 /\ IdleDay9 /\ IdleMain /\ IdleDay10 /\ IdleDay11 /\ IdleDay15 /\ IdleDay5
IdleNotDay15 == IdleReadLines /\ IdleDay12 /\ IdleDay16 /\ IdleDay17 /\ IdleDay19 /\ IdleDay9 /\ IdleMain /\ IdleDay10 /\ IdleDay11 /\ IdleDay14 /\ IdleDay5
IdleNotDay5 == IdleReadLines /\ IdleDay12 /\ IdleDay16 /\ IdleDay17 /\ IdleDay19 /\ IdleDay9 /\ IdleMain /\ IdleDay10 /\ IdleDay11 /\ IdleDay14 /\ IdleDay15

(***************************************************************************)
(*                         lib.rs: read_lines                              *)
(***************************************************************************)

\* Longest file of the model, in lines.
MaxLines == 3

\* One item of BufRead::lines(): a line that reads (Ok(text)) or an io::Error.
LineReads == {Ok("a"), Ok("b"), Err("IoError")}

Files == SeqsUpTo(LineReads, MaxLines)

\* A slip: lines that fail to read are skipped (as filter_map(Result::ok) would).
collect_step_skip(collected, item) ==
    IF IsOk(item) THEN Ok(Append(collected, item.value)) ELSE Ok(collected)

\* One step of `.collect::<io::Result<Vec<String>>>()`: an Ok item is pushed,
\* the first Err item ends the collection and is the result.
collect_step(collected, item) ==
    IF IsOk(item) THEN Ok(Append(collected, item.value)) ELSE item

RECURSIVE collect(_, _, _)
collect(items, k, collected) ==
    IF k > Len(items) THEN Ok(collected)
    ELSE LET r == collect_step(collected, items[k])
         IN  IF IsOk(r) THEN collect(items, k + 1, r.value) ELSE r

\* pub fn read_lines(path) as a function of the file found at the path
read_lines(file) ==
    IF IsErr(file) THEN Err("IoError") ELSE collect(file.value, 1, <<>>)

InitReadLines ==
    /\ fs_file \in {Err("NotFound")} \cup {Ok(f) : f \in Files}
    /\ rl_pc = "open"
    /\ rl_next = 1
    /\ rl_collected = <<>>
    /\ rl_result = None
    /\ IdleNotReadLines

\* File::open(path)?
RL_Open ==
    /\ rl_pc = "open"
    /\ IF IsErr(fs_file)
       THEN /\ rl_result' = Err("IoError")
            /\ rl_pc' = "returned"
       ELSE /\ rl_pc' = "lines"
            /\ UNCHANGED rl_result
    /\ UNCHANGED <<fs_file, rl_next, rl_collected, NotReadLines>>

\* reader.lines().collect(): the next item is taken
RL_NextLine ==
    /\ rl_pc = "lines"
    /\ rl_next <= Len(fs_file.value)
    /\ LET r == collect_step(rl_collected, fs_file.value[rl_next])
       IN  IF IsOk(r)
           THEN /\ rl_collected' = r.value
                /\ rl_next' = rl_next + 1
                /\ UNCHANGED <<rl_pc, rl_result>>
           ELSE /\ rl_collected' = <<>>
                /\ rl_result' = r
                /\ rl_pc' = "returned"
                /\ UNCHANGED rl_next
    /\ UNCHANGED <<fs_file, NotReadLines>>

\* reader.lines().collect(): the iterator is exhausted
RL_EndOfFile ==
    /\ rl_pc = "lines"
    /\ rl_next > Len(fs_file.value)
    /\ rl_result' = Ok(rl_collected)
    /\ rl_pc' = "returned"
    /\ UNCHANGED <<fs_file, rl_next, rl_collected, NotReadLines>>

NextReadLines == RL_Open \/ RL_NextLine \/ RL_EndOfFile

SpecReadLines == InitReadLines /\ [][NextReadLines]_vars

AllLinesRead(file) == \A k \in 1..Len(file) : IsOk(file[k])

\* C3: read_lines returns the file's lines in file order when the file opens
\* and every line read succeeds, and an I/O error (never a partial list) when
\* the file cannot be opened or any single line read fails.
C3_ReadLinesAllOrError ==
    rl_pc = "returned" =>
        /\ rl_result = read_lines(fs_file)
        /\ IF IsOk(fs_file) /\ AllLinesRead(fs_file.value)
           THEN /\ IsOk(rl_result)
                /\ Len(rl_result.value) = Len(fs_file.value)
                /\ \A k \in 1..Len(fs_file.value) :
                       rl_result.value[k] = fs_file.value[k].value
           ELSE rl_result = Err("IoError")

\* The second of three line reads failed after a first line was collected.
C3_Witness ==
    /\ rl_pc = "returned"
    /\ fs_file = Ok(<<Ok("a"), Err("IoError"), Ok("b")>>)
    /\ rl_result = Err("IoError")

(***************************************************************************)
(*                              day12.rs                                   *)
(***************************************************************************)

\* Largest input of the model, in bytes of the input file (each row counts
\* its characters and its line end).
MaxInputBytes == 7

\* The characters of the model's elevation maps.
D12Chars == {"S", "E", "y"}

\* The byte of a character (b'S', b'E', b'a', ...).
Byte(c) ==
    CASE c = "S" -> 83
      [] c = "E" -> 69
      [] c = "a" -> 97
      [] c = "x" -> 120
      [] c = "y" -> 121
      [] c = "z" -> 122

\* All inputs (sequences of rows) of at most n bytes.
RECURSIVE D12Inputs(_)
D12Inputs(n) ==
    {<<>>} \cup
    UNION {{<<row>> \o rest : row \in [1..k -> D12Chars], rest \in D12Inputs(n - k - 1)}
           : k \in 0..(n - 1)}

\* Position of the last x (0-based) of the row holding character c, if any.
LastIn(row, c, y, before) ==
    LET xs == {x \in 1..Len(row) : row[x] = c}
    IN  IF xs = {} THEN before
        ELSE Some(<<(CHOOSE x \in xs : \A x2 \in xs : x2 <= x) - 1, y>>)

\* The elevation stored for a byte: the match of lines 57-67.
StoredElevation(c) ==
    IF c = "S" THEN Byte("a") ELSE IF c = "E" THEN Byte("z") ELSE Byte(c)

\* impl TryFrom<&[String]> for ElevationMap: the loop over the rows (y is
\* 1-based here, the stored positions are 0-based as in the source).
RECURSIVE try_from_rows(_, _, _, _, _, _)
try_from_rows(value, y, storage, width, start, end) ==
    IF y > Len(value)
    THEN IF ~IsSome(start) THEN Err("NoStartPosition")
         ELSE IF ~IsSome(end) THEN Err("NoEndPosition")
         ELSE Ok([storage |-> storage,
                  width   |-> IF IsSome(width) THEN width.value ELSE 0,
                  height  |-> Len(value),
                  start   |-> start.value,
                  end     |-> end.value])
    ELSE LET row         == value[y]
             row_width   == Len(row)
             new_storage == storage \o [x \in 1..row_width |-> StoredElevation(row[x])]
             new_start   == LastIn(row, "S", y - 1, start)
             new_end     == LastIn(row, "E", y - 1, end)
         IN  IF IsSome(width) /\ width.value # row_width
             THEN Err("InconsistentRowWidth")
             ELSE try_from_rows(value, y + 1, new_storage, Some(row_width),
                                new_start, new_end)

ElevationMap_try_from(value) == try_from_rows(value, 1, <<>>, None, None, None)

\* ElevationMap::index_of
index_of(map, col_index, row_index) == row_index * map.width + col_index

\* ElevationMap::get
ElevationMap_get(map, col_index, row_index) ==
    LET i == index_of(map, col_index, row_index)
    IN  IF i < Len(map.storage) THEN Some(map.storage[i + 1]) ELSE None

\* ElevationMap::neighbours
neighbours(map, p) ==
    LET x == p[1]
        y == p[2]
    IN  (IF x > 0 THEN <<(<<x - 1, y>>)>> ELSE <<>>)
        \o (IF y > 0 THEN <<(<<x, y - 1>>)>> ELSE <<>>)
        \o (IF x + 1 < map.width THEN <<(<<x + 1, y>>)>> ELSE <<>>)
        \o (IF y + 1 < map.height THEN <<(<<x, y + 1>>)>> ELSE <<>>)

\* A slip: the climb test is strict, so a step one higher is refused.
neighbours_with_distances_strict(map, p) ==
    LET current_elevation == ElevationMap_get(map, p[1], p[2])
        ns == neighbours(map, p)
        keep(q) == LET target_elevation == ElevationMap_get(map, q[1], q[2])
                   IN  /\ IsSome(target_elevation)
                       /\ IsSome(current_elevation)
                       /\ target_elevation.value < current_elevation.value + 1
    IN  SelectSeq([k \in 1..Len(ns) |-> <<ns[k], 1>>], LAMBDA e : keep(e[1]))

\* ElevationMap::neighbours_with_distances
neighbours_with_distances(map, p) ==
    LET current_elevation == ElevationMap_get(map, p[1], p[2])
        ns == neighbours(map, p)
        keep(q) == LET target_elevation == ElevationMap_get(map, q[1], q[2])
                   IN  /\ IsSome(target_elevation)
                       /\ IsSome(current_elevation)
                       /\ target_elevation.value <= current_elevation.value + 1
    IN  SelectSeq([k \in 1..Len(ns) |-> <<ns[k], 1>>], LAMBDA e : keep(e[1]))

\* previous.contains_key(node), previous as a set of <<node, prev>> entries
contains_key(prev, node) == \E e \in prev : e[1] = node

\* lines 187-194: the walk back over `previous` that counts the path length
RECURSIVE path_length(_, _, _)
path_length(prev, node, length) ==
    IF contains_key(prev, node)
    THEN LET e == CHOOSE e \in prev : e[1] = node
         IN  path_length(prev \ {e}, e[2], length + 1)
    ELSE length

\* lines 196-205: the for loop over the neighbours of the popped point;
\* yields the new <<queue, previous>>.
RECURSIVE relax(_, _, _, _, _, _, _)
relax(ns, k, point, tentative_distance, start, q, prev) ==
    IF k > Len(ns) THEN <<q, prev>>
    ELSE LET neighbour == ns[k][1]
             distance  == ns[k][2]
         IN  IF neighbour # start /\ ~contains_key(prev, neighbour)
             THEN relax(ns, k + 1, point, tentative_distance, start,
                        q \cup {[point |-> neighbour,
                                 tentative_distance |-> tentative_distance + distance]},
                        prev \cup {<<neighbour, point>>})
             ELSE relax(ns, k + 1, point, tentative_distance, start, q, prev)

\* The elements BinaryHeap::pop may return: Ord is reversed on
\* tentative_distance, so a greatest element has the least distance; which of
\* several equal ones comes out is left open.
Poppable(q) == {e \in q : \A f \in q : e.tentative_distance <= f.tentative_distance}

\* part2, lines 223-225: the positions whose elevation is b'a', x-major
RECURSIVE positions_a(_, _, _)
positions_a(map, x, y) ==
    IF x >= map.width THEN <<>>
    ELSE IF y >= map.height THEN positions_a(map, x + 1, 0)
    ELSE (IF ElevationMap_get(map, x, y) = Some(Byte("a")) THEN <<(<<x, y>>)>> ELSE <<>>)
         \o positions_a(map, x, y + 1)

InitDay12 ==
    /\ d12_input \in D12Inputs(MaxInputBytes)
    /\ d12_fn \in {"part1", "part2", "lsp"}
    /\ d12_pc = "parse"
    /\ d12_map = None
    /\ d12_positions = <<>>
    /\ d12_best = None
    /\ d12_start = <<0, 0>>
    /\ queue = {}
    /\ previous = {}
    /\ d12_lsp = None
    /\ d12_outcome = None
    /\ IdleNotDay12

\* `let map: ElevationMap = input.as_slice().try_into().unwrap();` (lines 214, 221)
D12_Parse ==
    /\ d12_pc = "parse"
    /\ LET r == ElevationMap_try_from(d12_input)
       IN  IF IsOk(r)
           THEN /\ d12_map' = Some(r.value)
                /\ d12_pc' = "parsed"
                /\ UNCHANGED d12_outcome
           ELSE /\ d12_outcome' = [tag |-> "Panic", error |-> r.error]
                /\ d12_pc' = "panicked"
                /\ UNCHANGED d12_map
    /\ UNCHANGED <<d12_input, d12_fn, d12_positions, d12_best, d12_start,
                   queue, previous, d12_lsp, NotDay12>>

\* length_of_shortest_path, lines 173-179: the heap holds `start`
BeginSearch(start) ==
    /\ d12_start' = start
    /\ queue' = {[point |-> start, tentative_distance |-> 0]}
    /\ previous' = {}
    /\ d12_pc' = "search"

\* part1, line 216: map.length_of_shortest_path(map.start)
D12_Part1Call ==
    /\ d12_pc = "parsed" /\ d12_fn = "part1"
    /\ BeginSearch(d12_map.value.start)
    /\ UNCHANGED <<d12_input, d12_fn, d12_map, d12_positions, d12_best,
                   d12_lsp, d12_outcome, NotDay12>>

\* part2, lines 223-225: the lazy iterator of 'a' positions is set up
D12_Part2Positions ==
    /\ d12_pc = "parsed" /\ d12_fn = "part2"
    /\ d12_positions' = positions_a(d12_map.value, 0, 0)
    /\ d12_pc' = "part2_next"
    /\ UNCHANGED <<d12_input, d12_fn, d12_map, d12_best, d12_start, queue,
                   previous, d12_lsp, d12_outcome, NotDay12>>

\* part2, line 226: the next position is searched
D12_Part2Call ==
    /\ d12_pc = "part2_next" /\ d12_positions # <<>>
    /\ BeginSearch(Head(d12_positions))
    /\ d12_positions' = Tail(d12_positions)
    /\ UNCHANGED <<d12_input, d12_fn, d12_map, d12_best, d12_lsp, d12_outcome,
                   NotDay12>>

\* part2, lines 227-228: .min().ok_or(NoPath) once the positions are used up
D12_Part2Return ==
    /\ d12_pc = "part2_next" /\ d12_positions = <<>>
    /\ d12_outcome' = IF IsSome(d12_best) THEN Ok(d12_best.value) ELSE Err("NoPath")
    /\ d12_pc' = "returned"
    /\ UNCHANGED <<d12_input, d12_fn, d12_map, d12_positions, d12_best, d12_start,
                   queue, previous, d12_lsp, NotDay12>>

\* A direct call of length_of_shortest_path with any cell of the map
D12_LspCall ==
    /\ d12_pc = "parsed" /\ d12_fn = "lsp"
    /\ \E x \in 0..(d12_map.value.width - 1), y \in 0..(d12_map.value.height - 1) :
           BeginSearch(<<x, y>>)
    /\ UNCHANGED <<d12_input, d12_fn, d12_map, d12_positions, d12_best,
                   d12_lsp, d12_outcome, NotDay12>>

\* length_of_shortest_path, lines 181-207: one turn of the while loop
D12_Pop ==
    /\ d12_pc = "search" /\ queue # {}
    /\ \E e \in Poppable(queue) :
           IF e.point = d12_map.value.end
           THEN /\ d12_lsp' = Some(path_length(previous, e.point, 0))
                /\ d12_pc' = "lsp_returned"
                /\ queue' = {}
                /\ previous' = {}
           ELSE LET r == relax(neighbours_with_distances(d12_map.value, e.point), 1,
                               e.point, e.tentative_distance, d12_start,
                               queue \ {e}, previous)
                IN  /\ queue' = r[1]
                    /\ previous' = r[2]
                    /\ UNCHANGED <<d12_lsp, d12_pc>>
    /\ UNCHANGED <<d12_input, d12_fn, d12_map, d12_positions, d12_best, d12_start,
                   d12_outcome, NotDay12>>

\* length_of_shortest_path, line 209: the heap is empty
D12_Exhausted ==
    /\ d12_pc = "search" /\ queue = {}
    /\ d12_lsp' = None
    /\ d12_pc' = "lsp_returned"
    /\ previous' = {}
    /\ UNCHANGED <<d12_input, d12_fn, d12_map, d12_positions, d12_best, d12_start,
                   queue, d12_outcome, NotDay12>>

\* The caller takes the returned Option<usize>.
D12_Return ==
    /\ d12_pc = "lsp_returned"
    /\ CASE d12_fn = "part1" ->
              /\ d12_outcome' = IF IsSome(d12_lsp) THEN Ok(d12_lsp.value) ELSE Err("NoPath")
              /\ d12_pc' = "returned"
              /\ UNCHANGED d12_best
         [] d12_fn = "part2" ->
              /\ d12_best' = IF IsSome(d12_lsp)
                             THEN (IF IsSome(d12_best)
                                   THEN Some(Min(d12_best.value, d12_lsp.value))
                                   ELSE d12_lsp)
                             ELSE d12_best
              /\ d12_pc' = "part2_next"
              /\ UNCHANGED d12_outcome
         [] d12_fn = "lsp" ->
              /\ d12_outcome' = d12_lsp
              /\ d12_pc' = "returned"
              /\ UNCHANGED d12_best
    /\ UNCHANGED <<d12_input, d12_fn, d12_map, d12_positions, d12_start, queue,
                   previous, d12_lsp, NotDay12>>

NextDay12 ==
    \/ D12_Parse
    \/ D12_Part1Call
    \/ D12_Part2Positions
    \/ D12_Part2Call
    \/ D12_Part2Return
    \/ D12_LspCall
    \/ D12_Pop
    \/ D12_Exhausted
    \/ D12_Return

SpecDay12 == InitDay12 /\ [][NextDay12]_vars

\* ---- what C4 and C5 say, stated over the input text ----

\* Elevation of the cell at 0-based (x, y) of the input: 'S' counts as 'a',
\* 'E' as 'z'.
CellElevation(input, p) ==
    LET c == input[p[2] + 1][p[1] + 1]
    IN  IF c = "S" THEN Byte("a") ELSE IF c = "E" THEN Byte("z") ELSE Byte(c)

CellsOf(input) ==
    {<<x, y>> : x \in 0..(Len(input[1]) - 1), y \in 0..(Len(input) - 1)}

\* One orthogonal step from p to q that climbs at most one.
MayStep(input, p, q) ==
    /\ Abs(p[1] - q[1]) + Abs(p[2] - q[2]) = 1
    /\ CellElevation(input, q) <= CellElevation(input, p) + 1

\* Least number of steps from the cells `reached` (k steps from the start) to
\* `end`, None when `end` cannot be reached.
RECURSIVE FewestSteps(_, _, _, _)
FewestSteps(input, reached, end, k) ==
    IF end \in reached THEN Some(k)
    ELSE LET next == reached \cup
                     {q \in CellsOf(input) : \E p \in reached : MayStep(input, p, q)}
         IN  IF next = reached THEN None
             ELSE FewestSteps(input, next, end, k + 1)

MapErrors(input) ==
    (IF \E i, j \in 1..Len(input) : Len(input[i]) # Len(input[j])
     THEN {"InconsistentRowWidth"} ELSE {})
    \cup (IF \A y \in 1..Len(input) : \A x \in 1..Len(input[y]) : input[y][x] # "S"
          THEN {"NoStartPosition"} ELSE {})
    \cup (IF \A y \in 1..Len(input) : \A x \in 1..Len(input[y]) : input[y][x] # "E"
          THEN {"NoEndPosition"} ELSE {})

\* C4: part1 and part2 report every invalid elevation map as an Err of
\* Day12Error: InconsistentRowWidth, NoStartPosition, NoEndPosition, and
\* NoPath when the end is unreachable; they do not end in any other way.
C4_InvalidMapIsErr ==
    (d12_fn \in {"part1", "part2"} /\ d12_pc \in {"returned", "panicked"}) =>
        IF MapErrors(d12_input) # {}
        THEN IsErr(d12_outcome) /\ d12_outcome.error \in MapErrors(d12_input)
        ELSE /\ (d12_fn = "part1"
                 /\ FewestSteps(d12_input, {d12_map.value.start},
                                d12_map.value.end, 0) = None)
                => d12_outcome = Err("NoPath")
             /\ (d12_fn = "part2"
                 /\ \A p \in CellsOf(d12_input) :
                        CellElevation(d12_input, p) = Byte("a")
                        => FewestSteps(d12_input, {p}, d12_map.value.end, 0) = None)
                => d12_outcome = Err("NoPath")

\* What the code does instead on an invalid map: the unwrap() of lines 214 and
\* 221 panics with the error try_from returned; only NoPath is returned as Err.
D12_InvalidMapPanics ==
    (d12_fn \in {"part1", "part2"} /\ d12_pc \in {"returned", "panicked"}) =>
        IF MapErrors(d12_input) # {}
        THEN /\ d12_pc = "panicked"
             /\ d12_outcome.tag = "Panic"
             /\ d12_outcome.error \in MapErrors(d12_input)
        ELSE /\ d12_pc = "returned"
             /\ d12_outcome \in {Err("NoPath")} \cup {Ok(n) : n \in 0..MaxInputBytes}

(***************************************************************************)
(*                              day16.rs                                   *)
(***************************************************************************)

\* The valve labels of the model's inputs.
Labels == {"AA", "BB", "CC"}

\* Largest flow rate of a valve in the model.
MaxFlow == 2

\* part1 calls generate_strategies with 30 minutes; the model also calls it
\* with the short limits 0..MaxMinutes, which cut strategies off.
PART1_TIME_LIMIT == 30
MaxMinutes == 4

\* parse_valves: every label has a flow rate and at least one tunnel (the
\* regex asks for one); tunnels: Vec<String> is kept as the set of its labels.
\* The inputs of the model have no tunnel from a valve to itself.
ValveMaps ==
    [Labels -> [flow_rate : 0..MaxFlow, tunnels : (SUBSET Labels) \ {{}}]]

ValveMapsOfModel ==
    {vs \in ValveMaps : \A label \in Labels : label \notin vs[label].tunnels}

\* The orders in which a HashMap with these keys may iterate.
KeyOrders(vs) ==
    {order \in [1..Cardinality(DOMAIN vs) -> DOMAIN vs] :
        \A a, b \in DOMAIN order : a # b => order[a] # order[b]}

\* A HashMap as the set of its entries.
map_get(map, key) ==
    IF \E e \in map : e.key = key
    THEN Some((CHOOSE e \in map : e.key = key).value)
    ELSE None

map_insert(map, key, value) ==
    {e \in map : e.key # key} \cup {[key |-> key, value |-> value]}

\* all_shortest_paths, first loop: the entries of distances and next for
\* (from, from) and, written after them, for every tunnel (from, to).
initial_tables(vs) ==
    [distances |->
        {[key |-> <<from, from>>, value |-> 0] :
            from \in {f \in DOMAIN vs : f \notin vs[f].tunnels}}
        \cup UNION {{[key |-> <<from, to>>, value |-> 1] : to \in vs[from].tunnels} :
                     from \in DOMAIN vs},
     next |->
        {[key |-> <<from, from>>, value |-> from] : from \in DOMAIN vs}
        \cup UNION {{[key |-> <<from, to>>, value |-> to] : to \in vs[from].tunnels} :
                     from \in DOMAIN vs}]

get_distance_through_k(distances, k, i, j) ==
    LET i_k == map_get(distances, <<i, k>>)
        k_j == map_get(distances, <<k, j>>)
    IN  IF IsSome(i_k) /\ IsSome(k_j) THEN Some(i_k.value + k_j.value) ELSE None

\* The body of the innermost loop of all_shortest_paths.
floyd_step(t, k, i, j) ==
    LET distance_through_k == get_distance_through_k(t.distances, k, i, j)
        i_j == map_get(t.distances, <<i, j>>)
        found_better_path ==
            IF IsSome(i_j) THEN i_j.value > distance_through_k.value ELSE TRUE
        n == map_get(t.next, <<i, k>>)
    IN  IF IsSome(distance_through_k) /\ found_better_path
        THEN [distances |-> map_insert(t.distances, <<i, j>>, distance_through_k.value),
              next |-> IF IsSome(n)
                       THEN map_insert(t.next, <<i, j>>, n.value)
                       ELSE t.next]
        ELSE t

\* The three nested loops over valves.keys(), from the n-th iteration on.
RECURSIVE floyd_loops(_, _, _)
floyd_loops(t, keys, n) ==
    LET size == Len(keys)
    IN  IF n >= size * size * size
        THEN t
        ELSE WithValue(floyd_step(t, keys[(n \div (size * size)) + 1],
                                  keys[((n \div size) % size) + 1],
                                  keys[(n % size) + 1]),
                       LAMBDA stepped : floyd_loops(stepped, keys, n + 1))

RECURSIVE get_shortest_path(_, _, _)
get_shortest_path(next, from, to) ==
    IF from = to
    THEN Some(<<>>)
    ELSE LET step == map_get(next, <<from, to>>)
         IN  IF ~IsSome(step)
             THEN None
             ELSE LET rest == get_shortest_path(next, step.value, to)
                  IN  IF IsSome(rest) THEN Some(<<step.value>> \o rest.value) ELSE None

\* all_shortest_paths: from -> to -> Option of the path (None: no entry).
all_shortest_paths(vs, keys) ==
    WithValue(floyd_loops(initial_tables(vs), keys, 0),
              LAMBDA t : [from \in DOMAIN vs |->
                            [to \in DOMAIN vs |-> get_shortest_path(t.next, from, to)]])

MoveTo(label) == [type |-> "MoveTo", label |-> label]
OpenValve == [type |-> "OpenValve"]
NoOp == [type |-> "NoOp"]

\* strategy.resize(time_limit, Action::NoOp)
resize(strategy, limit) ==
    [n \in 1..limit |-> IF n <= Len(strategy) THEN strategy[n] ELSE NoOp]

\* generate_strategies::aux: the strategies it pushes (the order of the Vec is
\* that of a HashSet iteration and is not kept).
RECURSIVE generate_strategies_aux(_, _, _, _, _)
generate_strategies_aux(limit, shortest_paths, current_position, valves_to_open, strategy) ==
    LET reachable ==
            IF current_position \in DOMAIN shortest_paths
            THEN {next_valve \in valves_to_open :
                    /\ IsSome(shortest_paths[current_position][next_valve])
                    /\ Len(strategy)
                         + Len(shortest_paths[current_position][next_valve].value) + 1
                       <= limit}
            ELSE {}
    IN  IF reachable = {}
        THEN {resize(strategy, limit)}
        ELSE UNION {generate_strategies_aux(
                        limit, shortest_paths, next_valve, valves_to_open \ {next_valve},
                        strategy
                          \o [n \in 1..Len(shortest_paths[current_position][next_valve].value)
                                |-> MoveTo(shortest_paths[current_position][next_valve].value[n])]
                          \o <<OpenValve>>) :
                    next_valve \in reachable}

generate_strategies(limit, vs, keys, valves_to_open, current_position) ==
    WithValue(all_shortest_paths(vs, keys),
              LAMBDA shortest_paths :
                  generate_strategies_aux(limit, shortest_paths, current_position,
                                          valves_to_open, <<>>))

VolcanoState_new(vs, starting_position) ==
    IF starting_position \in DOMAIN vs
    THEN Ok([current_position |-> starting_position, open_valves |-> {},
             pressure_released |-> 0])
    ELSE Err("EmptyInput")

RECURSIVE SumFlowRates(_, _)
SumFlowRates(vs, open_valves) ==
    IF open_valves = {}
    THEN 0
    ELSE LET v == CHOOSE v \in open_valves : TRUE
         IN  vs[v].flow_rate + SumFlowRates(vs, open_valves \ {v})

\* VolcanoState::tick, had a valve released in the minute that opens it.
VolcanoState_tick_early(vs, state, action) ==
    LET opened == IF action.type = "OpenValve"
                  THEN state.open_valves \cup {state.current_position}
                  ELSE state.open_valves
        released == [state EXCEPT !.pressure_released = @ + SumFlowRates(vs, opened)]
    IN  CASE action.type = "OpenValve" ->
                Ok([released EXCEPT !.open_valves = @ \cup {state.current_position}])
          [] action.type = "MoveTo" ->
                IF action.label \in DOMAIN vs
                THEN Ok([released EXCEPT !.current_position = action.label])
                ELSE Err("ValveNotFound")
          [] action.type = "NoOp" -> Ok(released)

\* VolcanoState::tick: the valves open at the start of the minute release,
\* then the action is carried out.
VolcanoState_tick(vs, state, action) ==
    LET released ==
            [state EXCEPT !.pressure_released = @ + SumFlowRates(vs, state.open_valves)]
    IN  CASE action.type = "OpenValve" ->
                Ok([released EXCEPT !.open_valves = @ \cup {state.current_position}])
          [] action.type = "MoveTo" ->
                IF action.label \in DOMAIN vs
                THEN Ok([released EXCEPT !.current_position = action.label])
                ELSE Err("ValveNotFound")
          [] action.type = "NoOp" -> Ok(released)

\* The loop of play_strategy from the n-th action on.
RECURSIVE play_from(_, _, _, _)
play_from(vs, state, strategy, n) ==
    IF n > Len(strategy)
    THEN Ok(state.pressure_released)
    ELSE WithValue(VolcanoState_tick(vs, state, strategy[n]),
                   LAMBDA ticked : IF IsErr(ticked)
                                   THEN ticked
                                   ELSE play_from(vs, ticked.value, strategy, n + 1))

play_strategy(vs, starting_position, strategy) ==
    LET state == VolcanoState_new(vs, starting_position)
    IN  IF IsErr(state) THEN state ELSE play_from(vs, state.value, strategy, 1)

SetMax(S) == CHOOSE m \in S : \A x \in S : x <= m

\* part1 with the time limit as a parameter.
part1(vs, keys, limit) ==
    LET valves_to_open == {label \in DOMAIN vs : vs[label].flow_rate > 0}
        strategies == generate_strategies(limit, vs, keys, valves_to_open, "AA")
        scores == {play_strategy(vs, "AA", strategy) : strategy \in strategies}
    IN  IF \E score \in scores : IsErr(score)
        THEN CHOOSE score \in scores : IsErr(score)
        ELSE IF scores = {}
             THEN Err("EmptyInput")
             ELSE Ok(SetMax({score.value : score \in scores}))

InitDay16 ==
    /\ valves \in ValveMapsOfModel
    /\ d16_time_limit \in {PART1_TIME_LIMIT} \cup 0..MaxMinutes
    /\ d16_pc = "called"
    /\ d16_result = None
    /\ IdleNotDay16

\* part1 runs; the HashMap iterates its keys in some order.
D16_Part1 ==
    /\ d16_pc = "called"
    /\ \E keys \in KeyOrders(valves) :
          d16_result' = part1(valves, keys, d16_time_limit)
    /\ d16_pc' = "returned"
    /\ UNCHANGED <<valves, d16_time_limit, NotDay16>>

NextDay16 == D16_Part1

SpecDay16 == InitDay16 /\ [][NextDay16]_vars

\* ---- the action sequences the puzzle allows ----

\* The most pressure that can still be released in the last n minutes, for
\* every position and set of open valves at the start of those minutes: in a
\* minute the open valves release, and one either opens the valve at the
\* position, moves through one tunnel, or idles.  The table is a set of
\* <<position, open valves, pressure>>.
TableValue(table, position, open_valves) ==
    (CHOOSE e \in table : e[1] = position /\ e[2] = open_valves)[3]

RECURSIVE MostReleasedIn(_, _)
MostReleasedIn(vs, n) ==
    IF n = 0
    THEN {<<x[1], x[2], 0>> : x \in (DOMAIN vs) \X SUBSET (DOMAIN vs)}
    ELSE WithValue(MostReleasedIn(vs, n - 1),
                   LAMBDA later :
                     {<<x[1], x[2],
                        SumFlowRates(vs, x[2])
                          + SetMax({TableValue(later, x[1], x[2]),
                                    TableValue(later, x[1], x[2] \cup {x[1]})}
                                   \cup {TableValue(later, q, x[2]) :
                                            q \in vs[x[1]].tunnels})>> :
                      x \in (DOMAIN vs) \X SUBSET (DOMAIN vs)})

MostPressure(vs, limit) == TableValue(MostReleasedIn(vs, limit), "AA", {})

\* C8: part1 returns the most pressure any sequence of moves, valve openings
\* and idle minutes from AA can release within the time limit, 30 minutes in
\* part1.
C8_Part1IsMaximum ==
    d16_pc = "returned" => d16_result = Ok(MostPressure(valves, d16_time_limit))

\* AA -- BB -- CC with flow rates 0, 1, 2 and 30 minutes: opening BB in
\* minute 2 and CC in minute 4 releases 28 * 1 + 26 * 2.
C8_Witness ==
    /\ d16_pc = "returned"
    /\ d16_time_limit = PART1_TIME_LIMIT
    /\ valves = [label \in Labels |->
                    CASE label = "AA" -> [flow_rate |-> 0, tunnels |-> {"BB"}]
                      [] label = "BB" -> [flow_rate |-> 1, tunnels |-> {"AA", "CC"}]
                      [] label = "CC" -> [flow_rate |-> 2, tunnels |-> {"BB"}]]
    /\ d16_result = Ok(80)

(***************************************************************************)
(*                              day17.rs                                   *)
(***************************************************************************)

\* Longest jet pattern of the model.
MaxJets == 9

\* How many times drop_rock is called at most in a run of the model.
MaxRocks == 56

JetPatterns == SeqsUpTo({"Left", "Right"}, MaxJets) \ {<<>>}

ROCK_SHAPES == <<"Horizontal", "Plus", "Wedge", "Vertical", "Square">>

\* RockShape::points(bottom_left); a point is <<x, y>>.
points(shape, x, y) ==
    CASE shape = "Horizontal" -> {<<x, y>>, <<x + 1, y>>, <<x + 2, y>>, <<x + 3, y>>}
      [] shape = "Plus" ->
            {<<x + 1, y>>, <<x, y + 1>>, <<x + 1, y + 1>>, <<x + 2, y + 1>>, <<x + 1, y + 2>>}
      [] shape = "Wedge" ->
            {<<x, y>>, <<x + 1, y>>, <<x + 2, y>>, <<x + 2, y + 1>>, <<x + 2, y + 2>>}
      [] shape = "Vertical" -> {<<x, y>>, <<x, y + 1>>, <<x, y + 2>>, <<x, y + 3>>}
      [] shape = "Square" -> {<<x, y>>, <<x + 1, y>>, <<x, y + 1>>, <<x + 1, y + 1>>}

CaveState_new(jet_pattern) ==
    IF Len(jet_pattern) = 0
    THEN Err("EmptyJetPattern")
    ELSE Ok([shape_index |-> 0, jet_index |-> 0, jet_pattern |-> jet_pattern,
             fallen_rocks |-> {}, heights |-> <<0, 0, 0, 0, 0, 0, 0>>])

CaveState_height(cs) ==
    CHOOSE h \in {cs.heights[k] : k \in 1..7} : \A k \in 1..7 : cs.heights[k] <= h

collides(pts, fallen_rocks) == pts \cap fallen_rocks # {}

\* One jet push of the loop in drop_rock: the bottom-left x after it.
pushed(shape, x, y, jet, fallen_rocks) ==
    IF jet = "Left"
    THEN IF x > 1 /\ ~collides(points(shape, x - 1, y), fallen_rocks) THEN x - 1 ELSE x
    ELSE IF /\ \A p \in points(shape, x + 1, y) : p[1] <= 7
            /\ ~collides(points(shape, x + 1, y), fallen_rocks)
         THEN x + 1
         ELSE x

\* The loop of drop_rock from bottom_left = (x, y) with jet_index = j: where
\* the rock comes to rest and the jet_index left behind.
RECURSIVE fall(_, _, _, _, _)
fall(cs, shape, x, y, j) ==
    LET jet == cs.jet_pattern[j + 1]
        next_j == (j + 1) % Len(cs.jet_pattern)
        px == pushed(shape, x, y, jet, cs.fallen_rocks)
    IN  IF y > 1 /\ ~collides(points(shape, px, y - 1), cs.fallen_rocks)
        THEN fall(cs, shape, px, y - 1, next_j)
        ELSE [x |-> px, y |-> y, jet_index |-> next_j]

drop_rock(cs) ==
    LET shape == ROCK_SHAPES[cs.shape_index + 1]
        rest == fall(cs, shape, 3, CaveState_height(cs) + 4, cs.jet_index)
        pts == points(shape, rest.x, rest.y)
    IN  [shape_index |-> (cs.shape_index + 1) % Len(ROCK_SHAPES),
         jet_index |-> rest.jet_index,
         jet_pattern |-> cs.jet_pattern,
         fallen_rocks |-> cs.fallen_rocks \cup pts,
         heights |-> [k \in 1..7 |->
                        LET ys == {p[2] : p \in {q \in pts : q[1] = k}} \cup {cs.heights[k]}
                        IN  CHOOSE h \in ys : \A v \in ys : v <= h]]

surface(cs) ==
    LET min == CHOOSE h \in {cs.heights[k] : k \in 1..7} : \A k \in 1..7 : h <= cs.heights[k]
    IN  [k \in 1..7 |-> cs.heights[k] - min]

CycleState(cs) ==
    [surface |-> surface(cs), shape_index |-> cs.shape_index, jet_index |-> cs.jet_index]

\* cycle_memory.get(&cycle_state)
cycle_memory_get(memory, cycle_state) ==
    IF \E e \in memory : e.key = cycle_state
    THEN Some((CHOOSE e \in memory : e.key = cycle_state).value)
    ELSE None

\* total_height of part2 for the target n, from the repeat found at i.
total_height(n, i, previous_i, current_height, memory) ==
    LET cycle_length == i - previous_i
        previous_height == memory[previous_i + 1]
        height_gain_per_cycle == current_height - previous_height
        number_of_cycles == (n - i) \div cycle_length
        remainder == (n - i) % cycle_length
        intermediate_index == previous_i + remainder
        intermediate_height == memory[intermediate_index + 1]
        intermediate_height_gain == intermediate_height - previous_height
    IN  current_height + height_gain_per_cycle * number_of_cycles + intermediate_height_gain

InitDay17 ==
    /\ \E jet_pattern \in JetPatterns : cave_state = CaveState_new(jet_pattern).value
    /\ cycle_memory = {}
    /\ height_memory = <<>>
    /\ d17_i = 0
    /\ d17_pc = "loop"
    /\ d17_previous_i = 0
    /\ d17_current_height = 0
    /\ d17_dropped = 0
    /\ IdleNotDay17

\* An iteration of part2's loop that finds no entry for the cycle state.
D17_Part2Remember ==
    /\ d17_pc = "loop"
    /\ d17_dropped < MaxRocks
    /\ cycle_memory_get(cycle_memory, CycleState(cave_state)) = None
    /\ height_memory' = Append(height_memory, CaveState_height(cave_state))
    /\ cycle_memory' = cycle_memory \cup {[key |-> CycleState(cave_state), value |-> d17_i]}
    /\ cave_state' = drop_rock(cave_state)
    /\ d17_dropped' = d17_dropped + 1
    /\ d17_i' = d17_i + 1
    /\ UNCHANGED <<d17_pc, d17_previous_i, d17_current_height, NotDay17>>

\* The iteration that finds the cycle state in cycle_memory: part2 computes
\* total_height from previous_i, i, current_height and height_memory.
D17_Part2Detect ==
    /\ d17_pc = "loop"
    /\ IsSome(cycle_memory_get(cycle_memory, CycleState(cave_state)))
    /\ d17_previous_i' = cycle_memory_get(cycle_memory, CycleState(cave_state)).value
    /\ d17_current_height' = CaveState_height(cave_state)
    /\ d17_pc' = "detected"
    /\ UNCHANGED <<cave_state, cycle_memory, height_memory, d17_i, d17_dropped, NotDay17>>

\* One more drop_rock on the same cave, as the loop of part1 does: the tower
\* that d17_dropped calls of drop_rock build.
D17_DropRock ==
    /\ d17_pc = "detected"
    /\ d17_dropped < MaxRocks
    /\ cave_state' = drop_rock(cave_state)
    /\ d17_dropped' = d17_dropped + 1
    /\ UNCHANGED <<cycle_memory, height_memory, d17_i, d17_pc, d17_previous_i,
                   d17_current_height, NotDay17>>

NextDay17 ==
    \/ D17_Part2Remember
    \/ D17_Part2Detect
    \/ D17_DropRock

SpecDay17 == InitDay17 /\ [][NextDay17]_vars

\* C6: for the target n = d17_dropped, the total height part2 computes from the
\* repeat it detected (current height + gain per cycle x whole cycles + gain of
\* the partial cycle) is the height of the tower after n calls of drop_rock.
C6_CycleDetectionMatchesDrops ==
    d17_pc = "detected" =>
        total_height(d17_dropped, d17_i, d17_previous_i, d17_current_height, height_memory)
            = CaveState_height(cave_state)

\* Before the repeat, and at the rock count of the repeat itself, the height
\* part2 holds is that of the rocks dropped so far.
D17_HeightAtDetection ==
    /\ d17_pc = "loop" => d17_i = d17_dropped
    /\ (d17_pc = "detected" /\ d17_dropped = d17_i) =>
          total_height(d17_i, d17_i, d17_previous_i, d17_current_height, height_memory)
              = CaveState_height(cave_state)

(***************************************************************************)
(*                              day19.rs                                   *)
(***************************************************************************)

\* Largest cost a blueprint of the model names; the parser's [0-9]+ accepts
\* every u64 from 0 on.
MaxCost == 2

\* Largest time_limit handed to max_geodes in the model.
MaxTimeLimit == 7

Blueprints ==
    [ore_robot_ore_cost : 0..MaxCost, clay_robot_ore_cost : 0..MaxCost,
     obsidian_robot_ore_cost : 0..MaxCost, obsidian_robot_clay_cost : 0..MaxCost,
     geode_robot_ore_cost : 0..MaxCost, geode_robot_obsidian_cost : 0..MaxCost]

\* [Ore, Clay, Obsidian, Geode], the order of the for loop in aux.
ROBOT_TYPES == <<"Ore", "Clay", "Obsidian", "Geode">>

State_new ==
    [ore_robots |-> 1, clay_robots |-> 0, obsidian_robots |-> 0, geode_robots |-> 0,
     ore |-> 0, clay |-> 0, obsidian |-> 0, geode |-> 0]

\* State::tick: pay for the robot, let every robot collect, add the new robot.
\* (aux only calls it with an action the state can pay for, so the u64
\* subtractions do not underflow.)
State_tick(s, bp, action) ==
    LET paid ==
            CASE action = "DoNothing" -> s
              [] action = "Ore" -> [s EXCEPT !.ore = @ - bp.ore_robot_ore_cost]
              [] action = "Clay" -> [s EXCEPT !.ore = @ - bp.clay_robot_ore_cost]
              [] action = "Obsidian" ->
                    [s EXCEPT !.ore = @ - bp.obsidian_robot_ore_cost,
                              !.clay = @ - bp.obsidian_robot_clay_cost]
              [] action = "Geode" ->
                    [s EXCEPT !.ore = @ - bp.geode_robot_ore_cost,
                              !.obsidian = @ - bp.geode_robot_obsidian_cost]
        collected ==
            [paid EXCEPT !.ore = @ + s.ore_robots,
                         !.clay = @ + s.clay_robots,
                         !.obsidian = @ + s.obsidian_robots,
                         !.geode = @ + s.geode_robots]
    IN  CASE action = "DoNothing" -> collected
          [] action = "Ore" -> [collected EXCEPT !.ore_robots = @ + 1]
          [] action = "Clay" -> [collected EXCEPT !.clay_robots = @ + 1]
          [] action = "Obsidian" -> [collected EXCEPT !.obsidian_robots = @ + 1]
          [] action = "Geode" -> [collected EXCEPT !.geode_robots = @ + 1]

should_build_more(s, bp, robot_type) ==
    CASE robot_type = "Ore" ->
            \/ s.ore_robots < bp.ore_robot_ore_cost
            \/ s.ore_robots < bp.clay_robot_ore_cost
            \/ s.ore_robots < bp.obsidian_robot_ore_cost
            \/ s.ore_robots < bp.geode_robot_ore_cost
      [] robot_type = "Clay" -> s.clay_robots < bp.obsidian_robot_clay_cost
      [] robot_type = "Obsidian" -> s.obsidian_robots < bp.geode_robot_obsidian_cost
      [] robot_type = "Geode" -> TRUE

saturating_sub(a, b) == IF a > b THEN a - b ELSE 0

div_ceil(a, b) == (a + b - 1) \div b

time_to_wait(s, bp, robot_type) ==
    CASE robot_type = "Ore" ->
            IF s.ore_robots > 0
            THEN Some(div_ceil(saturating_sub(bp.ore_robot_ore_cost, s.ore), s.ore_robots))
            ELSE None
      [] robot_type = "Clay" ->
            IF s.ore_robots > 0
            THEN Some(div_ceil(saturating_sub(bp.clay_robot_ore_cost, s.ore), s.ore_robots))
            ELSE None
      [] robot_type = "Obsidian" ->
            IF s.ore_robots > 0 /\ s.clay_robots > 0
            THEN Some(Max(div_ceil(saturating_sub(bp.obsidian_robot_ore_cost, s.ore),
                                   s.ore_robots),
                          div_ceil(saturating_sub(bp.obsidian_robot_clay_cost, s.clay),
                                   s.clay_robots)))
            ELSE None
      [] robot_type = "Geode" ->
            IF s.ore_robots > 0 /\ s.obsidian_robots > 0
            THEN Some(Max(div_ceil(saturating_sub(bp.geode_robot_ore_cost, s.ore),
                                   s.ore_robots),
                          div_ceil(saturating_sub(bp.geode_robot_obsidian_cost, s.obsidian),
                                   s.obsidian_robots)))
            ELSE None

\* `for _ in 0..n { state = state.tick(blueprint, &DoNothing) }`
RECURSIVE idle(_, _, _)
idle(s, bp, n) == IF n <= 0 THEN s ELSE idle(State_tick(s, bp, "DoNothing"), bp, n - 1)

\* The tail of aux: when stuck, idle until the limit and keep the larger count.
aux_finish(limit, bp, time_spent, s, r) ==
    IF r.stuck
    THEN Max(r.result, idle(s, bp, limit - time_spent).geode)
    ELSE r.result

\* aux(time_limit, blueprint, time_spent, state, result): the value of *result
\* when the call returns.  aux_for is its loop over the robot types from the
\* k-th on, carrying *result and `stuck`.
RECURSIVE aux(_, _, _, _, _)
RECURSIVE aux_for(_, _, _, _, _, _, _)
aux_for(limit, bp, time_spent, s, k, result, stuck) ==
    IF k > Len(ROBOT_TYPES)
    THEN [result |-> result, stuck |-> stuck]
    ELSE LET robot_type == ROBOT_TYPES[k]
             wait == time_to_wait(s, bp, robot_type)
         IN  IF /\ should_build_more(s, bp, robot_type)
                /\ IsSome(wait)
                /\ time_spent + wait.value + 1 <= limit
             THEN aux_for(limit, bp, time_spent, s, k + 1,
                          aux(limit, bp, time_spent + wait.value + 1,
                              State_tick(idle(s, bp, wait.value), bp, robot_type),
                              result),
                          FALSE)
             ELSE aux_for(limit, bp, time_spent, s, k + 1, result, stuck)

aux(limit, bp, time_spent, s, result) ==
    LET time_left == limit - time_spent
        geode_upper_bound ==
            s.geode + time_left * s.geode_robots + (time_left * (time_left - 1)) \div 2
    IN  aux_finish(limit, bp, time_spent, s,
                   IF time_left > 0 /\ geode_upper_bound > result
                   THEN aux_for(limit, bp, time_spent, s, 1, result, TRUE)
                   ELSE [result |-> result, stuck |-> TRUE])

max_geodes(limit, bp) == aux(limit, bp, 0, State_new, 0)

InitDay19 ==
    /\ blueprint \in Blueprints
    /\ time_limit \in 0..MaxTimeLimit
    /\ d19_pc = "called"
    /\ d19_result = 0
    /\ IdleNotDay19

D19_MaxGeodes ==
    /\ d19_pc = "called"
    /\ d19_result' = max_geodes(time_limit, blueprint)
    /\ d19_pc' = "returned"
    /\ UNCHANGED <<blueprint, time_limit, NotDay19>>

NextDay19 == D19_MaxGeodes

SpecDay19 == InitDay19 /\ [][NextDay19]_vars

\* ---- the schedules the puzzle allows ----

\* A robot can be built in a minute when the resources held at the start of
\* the minute pay for it.
CanPay(s, bp, action) ==
    CASE action = "DoNothing" -> TRUE
      [] action = "Ore" -> s.ore >= bp.ore_robot_ore_cost
      [] action = "Clay" -> s.ore >= bp.clay_robot_ore_cost
      [] action = "Obsidian" ->
            s.ore >= bp.obsidian_robot_ore_cost /\ s.clay >= bp.obsidian_robot_clay_cost
      [] action = "Geode" ->
            s.ore >= bp.geode_robot_ore_cost /\ s.obsidian >= bp.geode_robot_obsidian_cost

\* The states some schedule of n more minutes reaches from a state of S.
RECURSIVE AfterMinutes(_, _, _)
AfterMinutes(S, bp, n) ==
    IF n = 0
    THEN S
    ELSE AfterMinutes({State_tick(s, bp, a) :
                          <<s, a>> \in {sa \in S \X {"DoNothing", "Ore", "Clay",
                                                     "Obsidian", "Geode"} :
                                            CanPay(sa[1], bp, sa[2])}},
                      bp, n - 1)

MostGeodes(limit, bp) ==
    SetMax({s.geode : s \in AfterMinutes({State_new}, bp, limit)})

\* C7: max_geodes(time_limit, blueprint) is the largest number of geodes any
\* schedule holds after time_limit minutes (one ore robot and no resources at
\* the start, at most one robot a minute paid from what is held when the
\* minute starts, every robot collecting from the minute after it was built).
C7_MaxGeodesIsOptimum ==
    d19_pc = "returned" => d19_result = MostGeodes(time_limit, blueprint)

PositiveCosts(bp) ==
    /\ bp.ore_robot_ore_cost > 0
    /\ bp.clay_robot_ore_cost > 0
    /\ bp.obsidian_robot_ore_cost > 0
    /\ bp.obsidian_robot_clay_cost > 0
    /\ bp.geode_robot_ore_cost > 0
    /\ bp.geode_robot_obsidian_cost > 0

\* What does hold: max_geodes never exceeds the optimum, and reaches it for
\* every blueprint all of whose costs are positive.
D19_OptimalForPositiveCosts ==
    d19_pc = "returned" =>
        /\ d19_result <= MostGeodes(time_limit, blueprint)
        /\ PositiveCosts(blueprint) => d19_result = MostGeodes(time_limit, blueprint)

(***************************************************************************)
(*                              day9.rs                                    *)
(***************************************************************************)

\* How far the head may wander from the origin in the model.
MaxCoord == 2

\* Largest |x|, |y| of an offset handed to Displacement::from.
MaxOffset == 2

\* enum Displacement
DISPLACEMENTS ==
    {"Center", "North", "NorthEast", "East", "SouthEast",
     "South", "SouthWest", "West", "NorthWest"}

\* impl Into<(isize, isize)> for Displacement
Displacement_into(d) ==
    CASE d = "Center"    -> <<0, 0>>
      [] d = "North"     -> <<0, 1>>
      [] d = "NorthEast" -> <<1, 1>>
      [] d = "East"      -> <<1, 0>>
      [] d = "SouthEast" -> <<1, -1>>
      [] d = "South"     -> <<0, -1>>
      [] d = "SouthWest" -> <<-1, -1>>
      [] d = "West"      -> <<-1, 0>>
      [] d = "NorthWest" -> <<-1, 1>>

\* A slip in the Less branch: the sign test of y is inverted.
Displacement_from_swapped(p) ==
    LET x == p[1]
        y == p[2]
    IN  IF Abs(x) < Abs(y) THEN (IF y > 0 THEN "South" ELSE "North")
        ELSE IF Abs(x) = Abs(y) THEN
            IF x > 0 THEN (IF y > 0 THEN "NorthEast" ELSE "SouthEast")
            ELSE IF x < 0 THEN (IF y > 0 THEN "NorthWest" ELSE "SouthWest")
            ELSE "Center"
        ELSE (IF x > 0 THEN "East" ELSE "West")

\* impl From<(isize, isize)> for Displacement: match x.abs().cmp(&y.abs())
Displacement_from(p) ==
    LET x == p[1]
        y == p[2]
    IN  IF Abs(x) < Abs(y) THEN (IF y > 0 THEN "North" ELSE "South")
        ELSE IF Abs(x) = Abs(y) THEN
            IF x > 0 THEN (IF y > 0 THEN "NorthEast" ELSE "SouthEast")
            ELSE IF x < 0 THEN (IF y > 0 THEN "NorthWest" ELSE "SouthWest")
            ELSE "Center"
        ELSE (IF x > 0 THEN "East" ELSE "West")

\* Displacement::into_position
into_position(d, pos) ==
    LET v == Displacement_into(d) IN <<pos[1] + v[1], pos[2] + v[2]>>

\* fn new_tail_displacement
new_tail_displacement(tail_displacement, motion) ==
    LET t == Displacement_into(tail_displacement)
        m == Displacement_into(motion)
    IN  Displacement_from(<<t[1] - m[1], t[2] - m[2]>>)

\* RopeState::new
RopeState_new == [head_position |-> <<0, 0>>, tail_displacement |-> "Center"]

\* RopeState::tail_position
RopeState_tail_position(s) == into_position(s.tail_displacement, s.head_position)

\* RopeState::apply_motion
RopeState_apply_motion(s, motion) ==
    [head_position     |-> into_position(motion, s.head_position),
     tail_displacement |-> new_tail_displacement(s.tail_displacement, motion)]

\* ExtendedRopeState::new
ExtendedRopeState_new(n_knots) ==
    [head_position      |-> <<0, 0>>,
     knot_displacements |-> [k \in 1..n_knots |-> "Center"]]

\* ExtendedRopeState::tail_position: fold of into_position over the knots
RECURSIVE FoldKnots(_, _, _)
FoldKnots(knots, k, position) ==
    IF k > Len(knots) THEN position
    ELSE FoldKnots(knots, k + 1, into_position(knots[k], position))

ExtendedRopeState_tail_position(s) ==
    FoldKnots(s.knot_displacements, 1, s.head_position)

\* The loop of ExtendedRopeState::apply_motion over knot_displacements.iter_mut()
RECURSIVE KnotLoop(_, _, _, _, _)
KnotLoop(knots, k, prev_anchor_position, new_anchor_position, motion) ==
    IF k > Len(knots) THEN knots
    ELSE LET prev_anchor == into_position(knots[k], prev_anchor_position)
             new_disp    == new_tail_displacement(knots[k], motion)
             new_anchor  == into_position(new_disp, new_anchor_position)
             next_motion == Displacement_from(<<new_anchor[1] - prev_anchor[1],
                                               new_anchor[2] - prev_anchor[2]>>)
         IN  KnotLoop([knots EXCEPT ![k] = new_disp], k + 1,
                      prev_anchor, new_anchor, next_motion)

\* A slip: the first knot is updated against the old head position, i.e. the
\* head is moved but the knot displacement is left as it was.
ExtendedRopeState_apply_motion_stale(s, motion) ==
    [head_position      |-> into_position(motion, s.head_position),
     knot_displacements |-> s.knot_displacements]

\* ExtendedRopeState::apply_motion
ExtendedRopeState_apply_motion(s, motion) ==
    LET new_head == into_position(motion, s.head_position)
    IN  [head_position      |-> new_head,
         knot_displacements |->
             KnotLoop(s.knot_displacements, 1, s.head_position, new_head, motion)]

InitDay9 ==
    /\ rope_state = RopeState_new
    /\ extended_rope_state = ExtendedRopeState_new(1)
    /\ offset = <<0, 0>>
    /\ displacement = Displacement_from(<<0, 0>>)
    /\ IdleNotDay9

\* tests::test_extended_rope_1_knot_apply_motion, continued over any number
\* of motions: the same motion is applied to both rope states.
ApplyMotion(motion) ==
    LET h == into_position(motion, rope_state.head_position)
    IN  /\ Abs(h[1]) <= MaxCoord /\ Abs(h[2]) <= MaxCoord
        /\ rope_state' = RopeState_apply_motion(rope_state, motion)
        /\ extended_rope_state' =
               ExtendedRopeState_apply_motion(extended_rope_state, motion)
        /\ UNCHANGED <<offset, displacement, NotDay9>>

\* Displacement::from applied to an offset of the range the rope produces.
ConvertOffset(x, y) ==
    /\ offset' = <<x, y>>
    /\ displacement' = Displacement_from(<<x, y>>)
    /\ UNCHANGED <<rope_state, extended_rope_state, NotDay9>>

NextDay9 ==
    \/ \E motion \in DISPLACEMENTS : ApplyMotion(motion)
    \/ \E x \in -MaxOffset..MaxOffset, y \in -MaxOffset..MaxOffset : ConvertOffset(x, y)

SpecDay9 == InitDay9 /\ [][NextDay9]_vars

\* C9: a one-knot ExtendedRopeState and a RopeState that received the same
\* motions have the same head position and the same tail position.
C9_OneKnotEquivalent ==
    /\ rope_state.head_position = extended_rope_state.head_position
    /\ RopeState_tail_position(rope_state)
           = ExtendedRopeState_tail_position(extended_rope_state)

\* A state where the tail has been dragged: the head is away from the origin
\* and the tail is neither on the head nor at the origin.
C9_Witness ==
    /\ Len(extended_rope_state.knot_displacements) = 1
    /\ rope_state.head_position = <<2, 1>>
    /\ rope_state.tail_displacement = "West"
    /\ ExtendedRopeState_tail_position(extended_rope_state) = <<1, 1>>

\* The vector C10 expects for an offset.
ExpectedVector(x, y) ==
    IF Abs(x) = Abs(y) THEN <<Sign(x), Sign(y)>>
    ELSE IF Abs(x) > Abs(y) THEN <<Sign(x), 0>>
    ELSE <<0, Sign(y)>>

\* C10: for |x| <= 2 and |y| <= 2, Displacement::from((x, y)) is the
\* displacement whose vector is (sign x, sign y) when |x| = |y|, (sign x, 0)
\* when |x| > |y| and (0, sign y) when |x| < |y|; from(d.into()) = d and
\* from(2 * d.into()) = d for each of the nine displacements.
C10_FromMatchesSigns ==
    /\ displacement \in DISPLACEMENTS
    /\ Displacement_into(displacement) = ExpectedVector(offset[1], offset[2])
    /\ \A d \in DISPLACEMENTS :
           LET v == Displacement_into(d)
           IN  /\ Displacement_from(v) = d
               /\ Displacement_from(<<2 * v[1], 2 * v[2]>>) = d

\* An offset off the axes and off the diagonals has been converted.
C10_Witness ==
    /\ offset = <<-1, 2>>
    /\ displacement = "North"

(***************************************************************************)
(*        fn main of the binaries and what a run writes to stdout          *)
(*   day1, day6, day10 and day16 are modelled: day1 and day6 are written   *)
(*   to the pattern every binary follows, day10 and day16 are the two      *)
(*   binaries with a print statement outside it.                           *)
(***************************************************************************)

\* A panic of a part (an index out of range): main never returns.
Panic == [tag |-> "Panic"]

\* What format strings are made of: literal text, `{:?}` and `{}` of a value,
\* and the line feed.  A String is a sequence of characters, a character a
\* one-character string.
Text(s) == [kind |-> "text", v |-> s]
Debug(value) == [kind |-> "debug", v |-> value]
Display(value) == [kind |-> "display", v |-> value]
Newline == [kind |-> "newline", v |-> "\n"]

\* The k-th smallest member of a set of numbers.
Nth(S, k) == CHOOSE i \in S : Cardinality({j \in S : j < i}) = k - 1

\* slice::split / str::split: the pieces between the members equal to sep
\* (one more piece than there are separators, empty pieces kept).
split(s, sep) ==
    LET seps == {i \in 1..Len(s) : s[i] = sep}
        n == Cardinality(seps)
        pos(k) == IF k = 0 THEN 0 ELSE IF k = n + 1 THEN Len(s) + 1 ELSE Nth(seps, k)
    IN  [k \in 1..(n + 1) |-> SubSeq(s, pos(k - 1) + 1, pos(k) - 1)]

\* The lines that written text makes on the terminal: one per line feed.
lines_of(text) ==
    LET feeds == {i \in 1..Len(text) : text[i].kind = "newline"}
        n == Cardinality(feeds)
        pos(k) == IF k = 0 THEN 0 ELSE Nth(feeds, k)
    IN  [k \in 1..n |-> SubSeq(text, pos(k - 1) + 1, pos(k) - 1)]

\* println!(..): the formatted text and a line feed are written to stdout.
println(out, text) == out \o lines_of(text \o <<Newline>>)

Digits == <<"0", "1", "2", "3", "4", "5", "6", "7", "8", "9">>
is_digit(c) == \E d \in 1..10 : Digits[d] = c
digit_value(c) == (CHOOSE d \in 1..10 : Digits[d] = c) - 1

RECURSIVE digits_value(_, _)
digits_value(s, n) ==
    IF n = 0 THEN 0 ELSE digits_value(s, n - 1) * 10 + digit_value(s[n])

\* str::parse for an integer type (the inputs of the model are far from
\* overflowing it): an optional sign, '-' for signed types only, then one or
\* more decimal digits.
parse_int(s, signed) ==
    LET has_sign == Len(s) > 0 /\ (s[1] = "+" \/ (signed /\ s[1] = "-"))
        digits == IF has_sign THEN Tail(s) ELSE s
    IN  IF Len(digits) = 0 \/ \E i \in 1..Len(digits) : ~is_digit(digits[i])
        THEN Err("ParseIntError")
        ELSE Ok(IF has_sign /\ s[1] = "-"
                THEN -digits_value(digits, Len(digits))
                ELSE digits_value(digits, Len(digits)))

\* ---------------------------- day1 ---------------------------------------

\* Longest day1 input of the model, in lines.
MaxCalorieLines == 5

CalorieLines == {<<>>, <<"1">>, <<"2">>, <<"x">>}

Day1Files == SeqsUpTo({Ok(line) : line \in CalorieLines} \cup {Err("IoError")},
                      MaxCalorieLines)

parse_elf_calories(lines) ==
    LET groups == split(lines, <<>>)
        parsed == [g \in DOMAIN groups |->
                     [n \in DOMAIN groups[g] |-> parse_int(groups[g][n], FALSE)]]
    IN  IF \E g \in DOMAIN parsed : \E n \in DOMAIN parsed[g] : IsErr(parsed[g][n])
        THEN Err("ParseIntError")
        ELSE Ok([g \in DOMAIN parsed |->
                   [n \in DOMAIN parsed[g] |-> parsed[g][n].value]])

RECURSIVE sum(_, _)
sum(v, n) == IF n = 0 THEN 0 ELSE sum(v, n - 1) + v[n]

\* elf_calories.into_iter().map(|v| v.iter().sum()).collect()
elf_total_calories(elf_calories) ==
    [g \in DOMAIN elf_calories |-> sum(elf_calories[g], Len(elf_calories[g]))]

\* sort_by(|a, b| b.cmp(a))
RECURSIVE sort_descending(_)
sort_descending(v) ==
    IF Len(v) = 0
    THEN <<>>
    ELSE LET m == CHOOSE i \in 1..Len(v) : \A j \in 1..Len(v) : v[j] <= v[i]
         IN  <<v[m]>> \o sort_descending(SubSeq(v, 1, m - 1) \o SubSeq(v, m + 1, Len(v)))

day1_part1(input) ==
    LET elf_calories == parse_elf_calories(input)
        totals == elf_total_calories(elf_calories.value)
    IN  IF IsErr(elf_calories) THEN elf_calories
        ELSE IF Len(totals) = 0 THEN Err("EmptyInput")
        ELSE Ok(SetMax({totals[g] : g \in DOMAIN totals}))

\* elf_total_calories[0..3] panics when there are fewer than three elves.
day1_part2(input) ==
    LET elf_calories == parse_elf_calories(input)
        totals == sort_descending(elf_total_calories(elf_calories.value))
    IN  IF IsErr(elf_calories) THEN elf_calories
        ELSE IF Len(totals) < 3 THEN Panic
        ELSE Ok(sum(SubSeq(totals, 1, 3), 3))

\* ---------------------------- day6 ---------------------------------------

\* Longest day6 datastream of the model over the characters a..d; one stream
\* of fourteen different characters is an input as well.
MaxChars == 4

FourteenDistinct ==
    <<"a", "b", "c", "d", "e", "f", "g", "h", "i", "j", "k", "l", "m", "n">>

Datastreams == SeqsUpTo({"a", "b", "c", "d"}, MaxChars) \cup {FourteenDistinct}

Day6Files ==
    SeqsUpTo({Ok(line) : line \in Datastreams} \cup {Err("IoError")}, 1)

\* The second loop of find_marker from the character of index i (from 0) on;
\* the window holds that character and the window_size - 1 before it.
RECURSIVE find_marker_from(_, _, _)
find_marker_from(input, window_size, i) ==
    IF i >= Len(input)
    THEN Err("NoMarker")
    ELSE LET window == SubSeq(input, i + 2 - window_size, i + 1)
             window_set == {window[n] : n \in 1..Len(window)}
         IN  IF Cardinality(window_set) = Len(window)
             THEN Ok(i + 1)
             ELSE find_marker_from(input, window_size, i + 1)

find_marker(input, window_size) == find_marker_from(input, window_size, window_size - 1)

day6_part1(input) ==
    IF Len(input) = 0 THEN Err("EmptyInput") ELSE find_marker(input[1], 4)

day6_part2(input) ==
    IF Len(input) = 0 THEN Err("EmptyInput") ELSE find_marker(input[1], 14)

\* ---------------------------- day10 --------------------------------------

\* Longest day10 program of the model, in lines.
MaxInstructions == 3

InstructionLines ==
    {<<"n", "o", "o", "p">>,
     <<"a", "d", "d", "x", " ", "1">>,
     <<"a", "d", "d", "x", " ", "-", "1">>,
     <<"a", "d", "d", "x", " ", "x">>,
     <<"a", "d", "d", "x">>,
     <<"j", "u", "m", "p">>}

Day10Files ==
    SeqsUpTo({Ok(line) : line \in InstructionLines} \cup {Err("IoError")},
             MaxInstructions)

Noop == [type |-> "Noop"]
AddX(value) == [type |-> "AddX", value |-> value]

Instruction_from_str(s) ==
    LET v == split(s, " ")
    IN  IF v = << <<"n", "o", "o", "p">> >>
        THEN Ok(Noop)
        ELSE IF Len(v) = 2 /\ v[1] = <<"a", "d", "d", "x">>
             THEN LET value == parse_int(v[2], TRUE)
                  IN  IF IsErr(value) THEN value ELSE Ok(AddX(value.value))
             ELSE Err("InvalidInstruction")

\* collect() into a Result: the first line that fails to parse is the error.
parse_instructions(input) ==
    LET parsed == [n \in DOMAIN input |-> Instruction_from_str(input[n])]
        failed == {n \in DOMAIN parsed : IsErr(parsed[n])}
    IN  IF failed # {}
        THEN parsed[Nth(failed, 1)]
        ELSE Ok([n \in DOMAIN parsed |-> parsed[n].value])

cycles_to_complete(instruction) == IF instruction.type = "Noop" THEN 1 ELSE 2

with_cycles_to_complete(instruction) == <<instruction, cycles_to_complete(instruction)>>

day10_State_new == [cycle_number |-> 0, x_register_value |-> 1, in_progress |-> None]

\* State::begin_tick: the state it returns and what is left of the instructions
begin_tick(state, instructions) ==
    LET counted == [state EXCEPT !.cycle_number = @ + 1]
    IN  IF IsSome(state.in_progress)
        THEN [state |-> counted, instructions |-> instructions]
        ELSE IF Len(instructions) = 0
             THEN [state |-> [counted EXCEPT !.in_progress = None],
                   instructions |-> instructions]
             ELSE [state |-> [counted EXCEPT !.in_progress =
                                  Some(with_cycles_to_complete(Head(instructions)))],
                   instructions |-> Tail(instructions)]

end_tick(state) ==
    IF IsSome(state.in_progress)
    THEN LET instruction == state.in_progress.value[1]
             cycles_left == state.in_progress.value[2]
         IN  IF cycles_left <= 1
             THEN [state EXCEPT
                     !.x_register_value =
                         IF instruction.type = "AddX" THEN @ + instruction.value ELSE @,
                     !.in_progress = None]
             ELSE [state EXCEPT !.in_progress = Some(<<instruction, cycles_left - 1>>)]
    ELSE state

signal_strength(state) == state.cycle_number * state.x_register_value

\* The while loop of part1.
RECURSIVE day10_part1_loop(_, _, _)
day10_part1_loop(state, instructions, total_signal_strength) ==
    IF Len(instructions) = 0
    THEN total_signal_strength
    ELSE WithValue(
             begin_tick(state, instructions),
             LAMBDA begun :
                 day10_part1_loop(
                     end_tick(begun.state), begun.instructions,
                     IF begun.state.cycle_number % 40 = 20
                        /\ begun.state.cycle_number <= 220
                     THEN total_signal_strength + signal_strength(begun.state)
                     ELSE total_signal_strength))

day10_part1(input) ==
    LET instructions == parse_instructions(input)
    IN  IF IsErr(instructions)
        THEN instructions
        ELSE Ok(day10_part1_loop(day10_State_new, instructions.value, 0))

CRT_WIDTH == 40
CRT_HEIGHT == 6
CRT_AREA == CRT_WIDTH * CRT_HEIGHT

\* Crt { display }, indexed from 0
Crt_new == [index \in 0..(CRT_AREA - 1) |-> FALSE]

Crt_update(display, state) ==
    LET index == state.cycle_number - 1
        is_lit == Abs(state.x_register_value - (index % CRT_WIDTH)) <= 1
    IN  [display EXCEPT ![index % CRT_AREA] = is_lit]

\* A slip: the line feed after the last row is left out.
Crt_to_str_unterminated(display) ==
    [n \in 1..(CRT_AREA + CRT_HEIGHT - 1) |->
        LET i == (n - 1) \div (CRT_WIDTH + 1)
            column == (n - 1) % (CRT_WIDTH + 1)
        IN  IF column = CRT_WIDTH
            THEN "\n"
            ELSE IF display[i * CRT_WIDTH + column] THEN "#" ELSE "."]

\* Crt::to_str: every row as CRT_WIDTH characters and a line feed
Crt_to_str(display) ==
    [n \in 1..(CRT_AREA + CRT_HEIGHT) |->
        LET i == (n - 1) \div (CRT_WIDTH + 1)
            column == (n - 1) % (CRT_WIDTH + 1)
        IN  IF column = CRT_WIDTH
            THEN "\n"
            ELSE IF display[i * CRT_WIDTH + column] THEN "#" ELSE "."]

\* The while loop of part2.
RECURSIVE day10_part2_loop(_, _, _)
day10_part2_loop(state, instructions, display) ==
    IF Len(instructions) = 0
    THEN display
    ELSE WithValue(
             begin_tick(state, instructions),
             LAMBDA begun :
                 day10_part2_loop(end_tick(begun.state), begun.instructions,
                                  Crt_update(display, begun.state)))

day10_part2(input) ==
    LET instructions == parse_instructions(input)
    IN  IF IsErr(instructions)
        THEN instructions
        ELSE Ok(Crt_to_str(day10_part2_loop(day10_State_new, instructions.value, Crt_new)))

\* ---------------------------- day16 --------------------------------------

\* Longest day16 input of the model, in lines.
MaxValveLines == 2

PART2_TIME_LIMIT == 26

\* A line is given by what valve_regex captures in it (the label, the digits
\* of the flow rate, the tunnels between ", "), or by None when the regex
\* does not match.
ValveLines ==
    {[captures |-> Some(<<label, flow_rate, tunnels>>)] :
        label \in {"AA", "BB"}, flow_rate \in {<<"0">>, <<"1">>},
        tunnels \in {<<"AA">>, <<"BB">>, <<"AA", "BB">>}}
    \cup {[captures |-> None]}

Day16Files ==
    SeqsUpTo({Ok(line) : line \in ValveLines} \cup {Err("IoError")}, MaxValveLines)

Valve_from_str(s) ==
    IF IsSome(s.captures)
    THEN LET flow_rate == parse_int(s.captures.value[2], FALSE)
         IN  IF IsErr(flow_rate)
             THEN flow_rate
             ELSE Ok([label |-> s.captures.value[1],
                      flow_rate |-> flow_rate.value,
                      tunnels |-> {s.captures.value[3][n] :
                                      n \in DOMAIN s.captures.value[3]}])
    ELSE Err("ParseValveError")

\* collect() into a Result<HashMap>: the first line that fails to parse is the
\* error; of two lines with one label the later one stays in the map.
parse_valves(input) ==
    LET parsed == [n \in DOMAIN input |-> Valve_from_str(input[n])]
        failed == {n \in DOMAIN parsed : IsErr(parsed[n])}
        last(label) == SetMax({n \in DOMAIN parsed : parsed[n].value.label = label})
    IN  IF failed # {}
        THEN parsed[Nth(failed, 1)]
        ELSE Ok([label \in {parsed[n].value.label : n \in DOMAIN parsed} |->
                   [flow_rate |-> parsed[last(label)].value.flow_rate,
                    tunnels |-> parsed[last(label)].value.tunnels]])

\* The orders in which the HashMap parsed from the input may iterate.
KeyOrdersOfInput(input) ==
    IF IsErr(parse_valves(input)) THEN {<<>>} ELSE KeyOrders(parse_valves(input).value)

\* fn part1(input)
day16_part1(input, keys) ==
    LET vs == parse_valves(input)
    IN  IF IsErr(vs) THEN vs ELSE part1(vs.value, keys, PART1_TIME_LIMIT)

VolcanoState2_new(vs, starting_position) ==
    IF starting_position \in DOMAIN vs
    THEN Ok([my_position |-> starting_position,
             elephant_position |-> starting_position,
             open_valves |-> {}, pressure_released |-> 0])
    ELSE Err("EmptyInput")

\* VolcanoState2::tick: the open valves release, then my action and the
\* elephant's are carried out in this order.
VolcanoState2_tick(vs, state, my_action, elephant_action) ==
    LET released ==
            [state EXCEPT !.pressure_released = @ + SumFlowRates(vs, state.open_valves)]
        mine ==
            CASE my_action.type = "OpenValve" ->
                    Ok([released EXCEPT !.open_valves = @ \cup {released.my_position}])
              [] my_action.type = "MoveTo" ->
                    IF my_action.label \in DOMAIN vs
                    THEN Ok([released EXCEPT !.my_position = my_action.label])
                    ELSE Err("ValveNotFound")
              [] my_action.type = "NoOp" -> Ok(released)
    IN  IF IsErr(mine)
        THEN mine
        ELSE CASE elephant_action.type = "OpenValve" ->
                    Ok([mine.value EXCEPT
                          !.open_valves = @ \cup {mine.value.elephant_position}])
               [] elephant_action.type = "MoveTo" ->
                    IF elephant_action.label \in DOMAIN vs
                    THEN Ok([mine.value EXCEPT
                               !.elephant_position = elephant_action.label])
                    ELSE Err("ValveNotFound")
               [] elephant_action.type = "NoOp" -> mine

\* The loop of play_strategy_2 over my_actions.iter().zip(elephant_actions),
\* from the n-th pair on.
RECURSIVE play_2_from(_, _, _, _, _)
play_2_from(vs, state, my_actions, elephant_actions, n) ==
    IF n > Min(Len(my_actions), Len(elephant_actions))
    THEN Ok(state.pressure_released)
    ELSE WithValue(VolcanoState2_tick(vs, state, my_actions[n], elephant_actions[n]),
                   LAMBDA ticked :
                       IF IsErr(ticked)
                       THEN ticked
                       ELSE play_2_from(vs, ticked.value, my_actions,
                                        elephant_actions, n + 1))

play_strategy_2(vs, starting_position, my_actions, elephant_actions) ==
    LET state == VolcanoState2_new(vs, starting_position)
    IN  IF IsErr(state)
        THEN state
        ELSE play_2_from(vs, state.value, my_actions, elephant_actions, 1)

\* One order of the Vec of strategies (it is the order in which aux met them,
\* which follows a HashSet iteration; the pairs are the same in any order).
RECURSIVE strategies_in_order(_)
strategies_in_order(strategies) ==
    IF strategies = {}
    THEN <<>>
    ELSE LET first == CHOOSE strategy \in strategies : TRUE
         IN  <<first>> \o strategies_in_order(strategies \ {first})

\* The nested loops of part2 from the n-th pair (from 0) on.  loop holds
\* max_score, last_percent and the percentages printed so far.
RECURSIVE part2_loop(_, _, _, _)
part2_loop(vs, strategies, n, loop) ==
    LET size == Len(strategies)
        total == size * size
    IN  IF n >= total
        THEN [printed |-> loop.printed,
              result |-> IF IsSome(loop.max_score)
                         THEN Ok(loop.max_score.value)
                         ELSE Err("EmptyInput")]
        ELSE WithValue(
                 play_strategy_2(vs, "AA", strategies[(n \div size) + 1],
                                 strategies[(n % size) + 1]),
                 LAMBDA score :
                     IF IsErr(score)
                     THEN [printed |-> loop.printed, result |-> score]
                     ELSE WithValue(
                              LET percent == ((n + 1) * 100) \div total
                              IN  [max_score |->
                                       IF IsSome(loop.max_score)
                                       THEN Some(Max(loop.max_score.value, score.value))
                                       ELSE Some(score.value),
                                   last_percent |->
                                       IF percent > loop.last_percent
                                       THEN percent ELSE loop.last_percent,
                                   printed |->
                                       IF percent > loop.last_percent
                                       THEN Append(loop.printed, percent)
                                       ELSE loop.printed],
                              LAMBDA looped : part2_loop(vs, strategies, n + 1, looped)))

\* fn part2(input): the percentages its println! wrote and what it returned
part2(input, keys) ==
    LET vs == parse_valves(input)
    IN  IF IsErr(vs)
        THEN [printed |-> <<>>, result |-> vs]
        ELSE WithValue(
                 strategies_in_order(
                     generate_strategies(
                         PART2_TIME_LIMIT, vs.value, keys,
                         {label \in DOMAIN vs.value : vs.value[label].flow_rate > 0},
                         "AA")),
                 LAMBDA strategies :
                     part2_loop(vs.value, strategies, 0,
                                [max_score |-> None, last_percent |-> 0,
                                 printed |-> <<>>]))

\* ---------------------------- fn main ------------------------------------

Binaries == {"day1", "day6", "day10", "day16"}

\* The files that may lie at INPUT_PATH of a binary.
FilesOf(b) ==
    CASE b = "day1" -> Day1Files
      [] b = "day6" -> Day6Files
      [] b = "day10" -> Day10Files
      [] b = "day16" -> Day16Files

\* day16 iterates over a HashMap; the other binaries have no such choice.
KeyOrdersOf(b, input) == IF b = "day16" THEN KeyOrdersOfInput(input) ELSE {<<>>}

\* part1(&input) of the binary
part1_of(b, input, keys) ==
    CASE b = "day1" -> day1_part1(input)
      [] b = "day6" -> day6_part1(input)
      [] b = "day10" -> day10_part1(input)
      [] b = "day16" -> day16_part1(input, keys)

\* part2(&input) of the binary: what it printed itself and what it returned
part2_of(b, input, keys) ==
    CASE b = "day1" -> [printed |-> <<>>, result |-> day1_part2(input)]
      [] b = "day6" -> [printed |-> <<>>, result |-> day6_part2(input)]
      [] b = "day10" -> [printed |-> <<>>, result |-> day10_part2(input)]
      [] b = "day16" -> part2(input, keys)

\* `{}` of a String: its characters
display_string(string) ==
    [n \in DOMAIN string |-> IF string[n] = "\n" THEN Newline ELSE Text(string[n])]

\* The format strings of main: "Part 1: {:?}" and "Part 2: {:?}" in every
\* binary, but "Part 2: \n{}" in day10.
answer_text(b, part, value) ==
    IF part = 1
    THEN <<Text("Part 1: "), Debug(value)>>
    ELSE IF b = "day10"
         THEN <<Text("Part 2: "), Newline>> \o display_string(value)
         ELSE <<Text("Part 2: "), Debug(value)>>

\* println!("{}% done", percent) for every percentage part2 of day16 printed
RECURSIVE print_progress(_, _, _)
print_progress(out, printed, n) ==
    IF n = 0
    THEN out
    ELSE println(print_progress(out, printed, n - 1),
                 <<Display(printed[n]), Text("% done")>>)

\* A slip: the `?` is left out, and the Result itself is printed.
main_statement_unchecked(b, part, out, result) ==
    IF result = Panic
    THEN [stdout |-> out, ended |-> "panicked", exit |-> None]
    ELSE IF IsErr(result)
         THEN [stdout |-> println(out, <<Text("Part: "), Debug(result)>>),
               ended |-> "failed", exit |-> result]
         ELSE [stdout |-> println(out, answer_text(b, part, result.value)),
               ended |-> "ok", exit |-> None]

\* println!("Part N: {:?}", partN(&input)?) once partN has returned: the `?`
\* returns an Err from main before anything is formatted or written.
main_statement(b, part, out, result) ==
    IF result = Panic
    THEN [stdout |-> out, ended |-> "panicked", exit |-> None]
    ELSE IF IsErr(result)
         THEN [stdout |-> out, ended |-> "failed", exit |-> result]
         ELSE [stdout |-> println(out, answer_text(b, part, result.value)),
               ended |-> "ok", exit |-> None]

InitMain ==
    /\ binary \in Binaries
    /\ main_file \in {Err("NotFound")} \cup {Ok(file) : file \in FilesOf(binary)}
    /\ main_pc = "read_lines"
    /\ main_input = <<>>
    /\ stdout = <<>>
    /\ main_exit = None
    /\ IdleNotMain

\* let input = read_lines(INPUT_PATH)?;
Main_ReadLines ==
    /\ main_pc = "read_lines"
    /\ LET input == read_lines(main_file)
       IN  IF IsErr(input)
           THEN /\ main_exit' = input
                /\ main_pc' = "failed_read_lines"
                /\ UNCHANGED main_input
           ELSE /\ main_input' = input.value
                /\ main_pc' = "part1"
                /\ UNCHANGED main_exit
    /\ UNCHANGED <<binary, main_file, stdout, NotMain>>

\* println!("Part 1: {:?}", part1(&input)?);
Main_Part1 ==
    /\ main_pc = "part1"
    /\ \E keys \in KeyOrdersOf(binary, main_input) :
         \E result \in {part1_of(binary, main_input, keys)} :
         \E done \in {main_statement(binary, 1, stdout, result)} :
             /\ stdout' = done.stdout
             /\ main_exit' = done.exit
             /\ main_pc' = CASE done.ended = "ok" -> "part2"
                             [] done.ended = "failed" -> "failed_part1"
                             [] done.ended = "panicked" -> "panicked_part1"
    /\ UNCHANGED <<binary, main_file, main_input, NotMain>>

\* println!("Part 2: {:?}", part2(&input)?);
Main_Part2 ==
    /\ main_pc = "part2"
    /\ \E keys \in KeyOrdersOf(binary, main_input) :
         \E ran \in {part2_of(binary, main_input, keys)} :
         \E out \in {print_progress(stdout, ran.printed, Len(ran.printed))} :
         \E done \in {main_statement(binary, 2, out, ran.result)} :
             /\ stdout' = done.stdout
             /\ main_exit' = done.exit
             /\ main_pc' = CASE done.ended = "ok" -> "return"
                             [] done.ended = "failed" -> "failed_part2"
                             [] done.ended = "panicked" -> "panicked_part2"
    /\ UNCHANGED <<binary, main_file, main_input, NotMain>>

\* Ok(())
Main_Return ==
    /\ main_pc = "return"
    /\ main_exit' = Ok(<<>>)
    /\ main_pc' = "returned"
    /\ UNCHANGED <<binary, main_file, main_input, stdout, NotMain>>

NextMain == Main_ReadLines \/ Main_Part1 \/ Main_Part2 \/ Main_Return

SpecMain == InitMain /\ [][NextMain]_vars

\* A line of stdout that gives the answer of a part.
IsAnswerLine(line, part) ==
    /\ Len(line) >= 1
    /\ line[1].kind = "text"
    /\ line[1].v = (IF part = 1 THEN "Part 1: " ELSE "Part 2: ")

\* A line of stdout of the form "N% done".
IsProgressLine(line) ==
    /\ Len(line) = 2
    /\ line[1].kind = "display"
    /\ line[2].kind = "text"
    /\ line[2].v = "% done"

AnswerLines(part) == {n \in DOMAIN stdout : IsAnswerLine(stdout[n], part)}

\* C1 as stated: in a run that ended with an error returned by read_lines,
\* part1 or part2, no "Part 1" or "Part 2" answer line has been written to
\* standard output.
C1_NoAnswerLineBeforeError ==
    main_pc \in {"failed_read_lines", "failed_part1", "failed_part2"}
        => AnswerLines(1) \cup AnswerLines(2) = {}

\* C1, amended: an error returned by read_lines, part1 or part2 is what main
\* returns; standard output is empty when read_lines or part1 failed, and when
\* part2 failed after part1 succeeded the "Part 1" answer line has been
\* written first and no "Part 2" answer line has been written.
C1_NoAnswerForFailedPart ==
    /\ main_pc \in {"failed_read_lines", "failed_part1"}
         => IsErr(main_exit) /\ stdout = <<>>
    /\ main_pc = "failed_part2"
         => /\ IsErr(main_exit)
            /\ AnswerLines(1) = {1}
            /\ AnswerLines(2) = {}

\* day6 on the datastream "abcd": part1 finds the marker after 4 characters,
\* part2 finds none.
C1_Witness ==
    /\ binary = "day6"
    /\ main_input = << <<"a", "b", "c", "d">> >>
    /\ main_pc = "failed_part2"
    /\ main_exit = Err("NoMarker")
    /\ stdout = << <<Text("Part 1: "), Debug(4)>> >>

\* C2 as stated: a successful run has written exactly two lines to standard
\* output, the answer of part 1 and the answer of part 2.
C2_ExactlyTwoLines ==
    main_pc = "returned"
        => /\ Len(stdout) = 2
           /\ IsAnswerLine(stdout[1], 1)
           /\ IsAnswerLine(stdout[2], 2)

\* C2, amended: a successful run writes the "Part 1" answer line first and
\* one part 2 answer after it, which ends the output.  In day16 the progress
\* lines "N% done" of part2 stand between the two, at least one and the last
\* of them "100% done"; in day10 the part 2 answer is the line "Part 2: ",
\* the CRT_HEIGHT rows of the CRT and an empty line; in the other binaries
\* the two answer lines are all that is written.
C2_SuccessfulRunOutput ==
    main_pc = "returned"
        => /\ main_exit = Ok(<<>>)
           /\ AnswerLines(1) = {1}
           /\ CASE binary = "day16" ->
                     /\ Len(stdout) >= 3
                     /\ \A n \in 2..(Len(stdout) - 1) : IsProgressLine(stdout[n])
                     /\ \A n \in 3..(Len(stdout) - 1) :
                            stdout[n - 1][1].v < stdout[n][1].v
                     /\ stdout[Len(stdout) - 1][1].v = 100
                     /\ AnswerLines(2) = {Len(stdout)}
                [] binary = "day10" ->
                     /\ Len(stdout) = CRT_HEIGHT + 3
                     /\ stdout[2] = <<Text("Part 2: ")>>
                     /\ \A n \in 3..(CRT_HEIGHT + 2) :
                            /\ Len(stdout[n]) = CRT_WIDTH
                            /\ \A c \in 1..CRT_WIDTH :
                                   stdout[n][c] \in {Text("#"), Text(".")}
                     /\ stdout[CRT_HEIGHT + 3] = <<>>
                [] OTHER ->
                     /\ Len(stdout) = 2
                     /\ AnswerLines(2) = {2}

\* day16 on two valves with flow rate 1 joined by tunnels: two strategies,
\* four pairs, a progress line after every pair.
C2_Witness ==
    /\ binary = "day16"
    /\ main_pc = "returned"
    /\ Len(stdout) = 6
    /\ IsAnswerLine(stdout[1], 1)
    /\ \A n \in 2..5 : IsProgressLine(stdout[n]) /\ stdout[n][1].v = 25 * (n - 1)
    /\ IsAnswerLine(stdout[6], 2)

(***************************************************************************)
(*              day10: the loops of part1 and part2, cycle by cycle        *)
(***************************************************************************)

\* The last cycle whose signal strength part1 adds.
LAST_SAMPLE == 220

\* Most instructions that follow the long head of a program of the model.
MaxTail == 2

\* Length of the block of "addx 1" a long program may start with.
AddxBlock == 30

Repeat(line, n) == [k \in 1..n |-> line]

TailLines ==
    {<<"n", "o", "o", "p">>,
     <<"a", "d", "d", "x", " ", "1">>,
     <<"a", "d", "d", "x", " ", "-", "1">>}

\* Programs that run for about LAST_SAMPLE cycles: a block of addx 1 or
\* none, noops up to a head of LAST_SAMPLE - 2 * MaxTail .. LAST_SAMPLE
\* cycles, and any tail of at most MaxTail instructions.
LongPrograms ==
    {Repeat(<<"a", "d", "d", "x", " ", "1">>, block)
       \o Repeat(<<"n", "o", "o", "p">>, head - 2 * block)
       \o tail :
        block \in {0, AddxBlock},
        head \in (LAST_SAMPLE - 2 * MaxTail)..LAST_SAMPLE,
        tail \in SeqsUpTo(TailLines, MaxTail)}

Day10Inputs == SeqsUpTo(InstructionLines, MaxInstructions) \cup LongPrograms

InitDay10 ==
    /\ d10_input \in Day10Inputs
    /\ d10_fn \in {"part1", "part2"}
    /\ d10_pc = "called"
    /\ d10_instructions = <<>>
    /\ d10_state = day10_State_new
    /\ d10_total = 0
    /\ d10_crt = <<>>
    /\ d10_result = None
    /\ IdleNotDay10

\* part1 / part2 up to the loop: parse_instructions(input)?, State::new(),
\* total_signal_strength = 0 or Crt::new()
D10_Call ==
    /\ d10_pc = "called"
    /\ \E parsed \in {parse_instructions(d10_input)} :
         IF IsErr(parsed)
         THEN /\ d10_result' = parsed
              /\ d10_pc' = "returned"
              /\ UNCHANGED <<d10_instructions, d10_crt>>
         ELSE /\ d10_instructions' = parsed.value
              /\ d10_crt' = IF d10_fn = "part2" THEN Crt_new ELSE <<>>
              /\ d10_pc' = "loop"
              /\ UNCHANGED d10_result
    /\ UNCHANGED <<d10_input, d10_fn, d10_state, d10_total, NotDay10>>

\* One iteration of `while !instructions.is_empty()` in part1
D10_Part1Tick ==
    /\ d10_pc = "loop"
    /\ d10_fn = "part1"
    /\ Len(d10_instructions) # 0
    /\ \E begun \in {begin_tick(d10_state, d10_instructions)} :
         /\ d10_instructions' = begun.instructions
         /\ d10_total' =
              IF begun.state.cycle_number % 40 = 20
                 /\ begun.state.cycle_number <= LAST_SAMPLE
              THEN d10_total + signal_strength(begun.state)
              ELSE d10_total
         /\ d10_state' = end_tick(begun.state)
    /\ UNCHANGED <<d10_input, d10_fn, d10_pc, d10_crt, d10_result, NotDay10>>

\* part1 leaves the loop: Ok(total_signal_strength)
D10_Part1Return ==
    /\ d10_pc = "loop"
    /\ d10_fn = "part1"
    /\ Len(d10_instructions) = 0
    /\ d10_result' = Ok(d10_total)
    /\ d10_pc' = "returned"
    /\ UNCHANGED <<d10_input, d10_fn, d10_instructions, d10_state, d10_total,
                   d10_crt, NotDay10>>

\* One iteration of `while !instructions.is_empty()` in part2
D10_Part2Tick ==
    /\ d10_pc = "loop"
    /\ d10_fn = "part2"
    /\ Len(d10_instructions) # 0
    /\ \E begun \in {begin_tick(d10_state, d10_instructions)} :
         /\ d10_instructions' = begun.instructions
         /\ d10_crt' = Crt_update(d10_crt, begun.state)
         /\ d10_state' = end_tick(begun.state)
    /\ UNCHANGED <<d10_input, d10_fn, d10_pc, d10_total, d10_result, NotDay10>>

\* part2 leaves the loop: Ok(crt.to_str())
D10_Part2Return ==
    /\ d10_pc = "loop"
    /\ d10_fn = "part2"
    /\ Len(d10_instructions) = 0
    /\ d10_result' = Ok(Crt_to_str(d10_crt))
    /\ d10_pc' = "returned"
    /\ UNCHANGED <<d10_input, d10_fn, d10_instructions, d10_state, d10_total,
                   d10_crt, NotDay10>>

NextDay10 ==
    \/ D10_Call
    \/ D10_Part1Tick
    \/ D10_Part1Return
    \/ D10_Part2Tick
    \/ D10_Part2Return

SpecDay10 == InitDay10 /\ [][NextDay10]_vars

\* The cycle in which the n-th instruction of a program ends: every
\* instruction takes one cycle and an addx one more.
EndCycle(program, n) ==
    n + Cardinality({m \in 1..n : program[m].type = "AddX"})

\* The total duration of a program.
Duration(program) == EndCycle(program, Len(program))

\* The addx instructions of a program: when each ends and what it adds.
AddxEnds(program) ==
    {[n |-> n, end |-> EndCycle(program, n), value |-> program[n].value] :
        n \in {m \in 1..Len(program) : program[m].type = "AddX"}}

RECURSIVE SumByValue(_, _)
SumByValue(ended, values) ==
    IF values = {}
    THEN 0
    ELSE LET v == CHOOSE v \in values : TRUE
         IN  v * Cardinality({e \in ended : e.value = v})
               + SumByValue(ended, values \ {v})

\* X(c), the register during cycle c: 1 plus the operands of the addx
\* instructions whose second cycle ended before cycle c.
RegisterDuring(ends, c) ==
    1 + SumByValue({e \in ends : e.end < c}, {e.value : e \in ends})

SampleCycles == {c \in 1..LAST_SAMPLE : c % 40 = 20}

RECURSIVE SumOfSamples(_, _)
SumOfSamples(ends, cycles) ==
    IF cycles = {}
    THEN 0
    ELSE LET c == CHOOSE c \in cycles : TRUE
         IN  c * RegisterDuring(ends, c) + SumOfSamples(ends, cycles \ {c})

\* C11: for every program that takes at least 220 cycles, part1 returns the
\* sum of c * X(c) over the cycles c = 20, 60, 100, 140, 180, 220.
C11_Part1SumsSamples ==
    (d10_fn = "part1" /\ d10_pc = "returned" /\ IsOk(d10_result))
        => \A program \in {parse_instructions(d10_input).value} :
               Duration(program) >= LAST_SAMPLE
                   => \A ends \in {AddxEnds(program)} :
                          d10_result.value = SumOfSamples(ends, SampleCycles)

\* What part1 does compute: the same sum when the program runs past cycle
\* 220 or ends with a noop, where its loop reaches cycle 220.
D10_Part1SumsSamplesReached ==
    (d10_fn = "part1" /\ d10_pc = "returned" /\ IsOk(d10_result))
        => \A program \in {parse_instructions(d10_input).value} :
               (\/ Duration(program) > LAST_SAMPLE
                \/ /\ Duration(program) = LAST_SAMPLE
                   /\ program[Len(program)].type = "Noop")
                   => \A ends \in {AddxEnds(program)} :
                          d10_result.value = SumOfSamples(ends, SampleCycles)

\* The character of the CRT cell with this index (from 0) in a to_str string.
CellOf(string, index) ==
    string[(index \div CRT_WIDTH) * (CRT_WIDTH + 1) + (index % CRT_WIDTH) + 1]

\* C12: part2 returns CRT_HEIGHT rows of CRT_WIDTH characters, and for every
\* cycle c of the program, the final cycle of its last instruction included,
\* the cell (c - 1) mod 240 is '#' iff |X(c) - ((c - 1) mod 40)| <= 1 and
\* '.' otherwise.
C12_Part2DrawsEveryCycle ==
    (d10_fn = "part2" /\ d10_pc = "returned" /\ IsOk(d10_result))
        => /\ Len(d10_result.value) = CRT_HEIGHT * (CRT_WIDTH + 1)
           /\ \A n \in 1..Len(d10_result.value) :
                  IF n % (CRT_WIDTH + 1) = 0
                  THEN d10_result.value[n] = "\n"
                  ELSE d10_result.value[n] \in {"#", "."}
           /\ \A program \in {parse_instructions(d10_input).value} :
              \A ends \in {AddxEnds(program)} :
              \A c \in 1..Duration(program) :
                  CellOf(d10_result.value, (c - 1) % CRT_AREA) =
                      IF Abs(RegisterDuring(ends, c) - ((c - 1) % CRT_WIDTH)) <= 1
                      THEN "#" ELSE "."

\* What part2 does draw: the cycles up to the first cycle of the last
\* instruction, which leaves out the second cycle of a final addx.
D10_Part2DrawsCyclesReached ==
    (d10_fn = "part2" /\ d10_pc = "returned" /\ IsOk(d10_result))
        => \A program \in {parse_instructions(d10_input).value} :
           \A ends \in {AddxEnds(program)} :
           \A c \in 1..Duration(program) :
               (c < Duration(program) \/ program[Len(program)].type = "Noop")
                   => CellOf(d10_result.value, (c - 1) % CRT_AREA) =
                          IF Abs(RegisterDuring(ends, c) - ((c - 1) % CRT_WIDTH)) <= 1
                          THEN "#" ELSE "."

(***************************************************************************)
(*                  day11: the turns of the monkeys in part2               *)
(***************************************************************************)

\* Largest starting item, largest operand of an operation, largest divisor
\* of a test, and the number of turns of the model.  The worry levels of a
\* run that never reduces them grow by squaring, which bounds the turns.
MaxItem == 2
MaxOperand == 2
MaxDivisor == 3
MaxTurns == 3

Add(n) == [type |-> "Add", n |-> n]
Multiply(n) == [type |-> "Multiply", n |-> n]
Square == [type |-> "Square"]

MonkeyOperations ==
    {Add(n) : n \in 2..MaxOperand} \cup {Multiply(n) : n \in 2..MaxOperand} \cup {Square}

\* parse_monkeys: two monkeys with one starting item each; the then and else
\* targets of a test are monkeys of the input (a monkey may throw to itself).
ParsedMonkeys ==
    [{0, 1} ->
        [items : {<<item>> : item \in 1..MaxItem},
         operation : MonkeyOperations,
         test : [if_divisible_by : 2..MaxDivisor,
                 then_throw_to : {0, 1},
                 else_throw_to : {0, 1}]]]

\* MonkeyOperation::calculate (the worry levels of the model are far from
\* overflowing usize)
MonkeyOperation_calculate(operation, old) ==
    CASE operation.type = "Add" -> old + operation.n
      [] operation.type = "Multiply" -> old * operation.n
      [] operation.type = "Square" -> old * old

MonkeyTest_apply(test, item) ==
    IF item % test.if_divisible_by = 0 THEN test.then_throw_to ELSE test.else_throw_to

\* A slip: the item is reduced by the divisor of the monkey's own test.
take_turn_2_own_divisor(monkey, modulo) ==
    [n \in 1..Len(monkey.items) |->
        LET item == MonkeyOperation_calculate(monkey.operation, monkey.items[n])
                      % monkey.test.if_divisible_by
        IN  [item |-> item, thrown_to |-> MonkeyTest_apply(monkey.test, item)]]

\* Monkey::take_turn_2: the Vec<ThrownItem> it returns (self.items is drained)
take_turn_2(monkey, modulo) ==
    [n \in 1..Len(monkey.items) |->
        LET item == MonkeyOperation_calculate(monkey.operation, monkey.items[n]) % modulo
        IN  [item |-> item, thrown_to |-> MonkeyTest_apply(monkey.test, item)]]

\* monkeys.iter().map(|monkey| monkey.test.if_divisible_by).product()
RECURSIVE product_of_divisors(_, _)
product_of_divisors(ms, n) ==
    IF n = 0 THEN 1 ELSE product_of_divisors(ms, n - 1) * ms[n - 1].test.if_divisible_by

\* The items of every monkey after monkey i was drained and the thrown
\* items were pushed back in their order.
items_after_turn(items, i, thrown) ==
    [m \in DOMAIN items |->
        (IF m = i THEN <<>> ELSE items[m])
          \o [n \in 1..Len(SelectSeq(thrown, LAMBDA t : t.thrown_to = m)) |->
                SelectSeq(thrown, LAMBDA t : t.thrown_to = m)[n].item]]

\* The same turn of a monkey with worry levels that are never reduced.
unreduced_turn(monkey, items) ==
    [n \in 1..Len(items) |->
        LET item == MonkeyOperation_calculate(monkey.operation, items[n])
        IN  [item |-> item, thrown_to |-> MonkeyTest_apply(monkey.test, item)]]

InitDay11 ==
    /\ monkeys \in ParsedMonkeys
    /\ activity = [m \in DOMAIN monkeys |-> 0]
    /\ d11_i = 0
    /\ d11_turns = 0
    /\ d11_thrown = <<>>
    /\ unreduced_items = [m \in DOMAIN monkeys |-> monkeys[m].items]
    /\ unreduced_activity = [m \in DOMAIN monkeys |-> 0]
    /\ unreduced_thrown = <<>>
    /\ IdleNotDay11

\* One iteration of `for i in 0..monkeys.len()` in part2: monkey i takes its
\* turn, its activity grows, the thrown items are pushed to their targets.
\* The run without reduction takes the same turn.
D11_TakeTurn ==
    /\ d11_turns < MaxTurns
    /\ monkeys # <<>>
    /\ \E modulo \in {product_of_divisors(monkeys, Cardinality(DOMAIN monkeys))} :
       \E thrown_items \in {take_turn_2(monkeys[d11_i], modulo)} :
       \E items \in {items_after_turn([m \in DOMAIN monkeys |-> monkeys[m].items],
                                      d11_i, thrown_items)} :
         /\ d11_thrown' = thrown_items
         /\ activity' = [activity EXCEPT ![d11_i] = @ + Len(thrown_items)]
         /\ monkeys' = [m \in DOMAIN monkeys |-> [monkeys[m] EXCEPT !.items = items[m]]]
    /\ \E thrown_items \in {unreduced_turn(monkeys[d11_i], unreduced_items[d11_i])} :
         /\ unreduced_thrown' = thrown_items
         /\ unreduced_activity' =
              [unreduced_activity EXCEPT ![d11_i] = @ + Len(thrown_items)]
         /\ unreduced_items' = items_after_turn(unreduced_items, d11_i, thrown_items)
    /\ d11_i' = (d11_i + 1) % Cardinality(DOMAIN monkeys)
    /\ d11_turns' = d11_turns + 1
    /\ UNCHANGED NotDay11

NextDay11 == D11_TakeTurn

SpecDay11 == InitDay11 /\ [][NextDay11]_vars

\* The monkeys the items of a turn were thrown to, in their order.
TargetsOf(thrown) == [n \in 1..Len(thrown) |-> thrown[n].thrown_to]

SOURCE_X == 500

\* The corner points of the model's rock structures lie at most MaxDx columns
\* left of the source and one column right of it, in the rows 1..MaxY; a
\* structure has at most MaxCorners of them.
MaxDx == 1
MaxY == 2
MaxCorners == 3

\* part1 in a release build may pile grains on one tile for ever; the model
\* follows it for this many grains.
MaxGrains == 8

\* Point(x, y) is <<x, y>>
CornerPoints == ((SOURCE_X - MaxDx)..(SOURCE_X + 1)) \X (1..MaxY)

\* parse_rock_structures: one RockStructure, which has at least two points
RockStructures ==
    {<<structure>> : structure \in UNION {[1..k -> CornerPoints] : k \in 2..MaxCorners}}

\* RockStructure::rock_points::add_segment: the points it pushes
add_segment(start, end) ==
    IF start[1] = end[1]
    THEN Ok(IF start[2] < end[2]
            THEN [n \in 1..(end[2] - start[2]) |-> <<start[1], start[2] + n - 1>>]
            ELSE [n \in 1..(start[2] - end[2]) |-> <<start[1], start[2] - n + 1>>])
    ELSE IF start[2] = end[2]
         THEN Ok(IF start[1] < end[1]
                 THEN [n \in 1..(end[1] - start[1]) |-> <<start[1] + n - 1, start[2]>>]
                 ELSE [n \in 1..(start[1] - end[1]) |-> <<start[1] - n + 1, start[2]>>])
         ELSE Err("InvalidRockPart")

\* The loop of rock_points over the segments from the n-th point on.
RECURSIVE rock_points_from(_, _, _)
rock_points_from(corners, n, result) ==
    IF n > Len(corners)
    THEN Ok(Append(result, corners[n - 1]))
    ELSE WithValue(add_segment(corners[n - 1], corners[n]),
                   LAMBDA segment :
                       IF IsErr(segment)
                       THEN segment
                       ELSE rock_points_from(corners, n + 1, result \o segment.value))

rock_points(structure) == rock_points_from(structure, 2, <<>>)

SetMin(S) == CHOOSE m \in S : \A x \in S : m <= x

find_boundaries(structures) ==
    LET corners == UNION {{structures[s][n] : n \in DOMAIN structures[s]} :
                            s \in DOMAIN structures}
    IN  [left |-> SetMin({SOURCE_X} \cup {corner[1] : corner \in corners}),
         top |-> 0,
         right |-> SetMax({SOURCE_X} \cup {corner[1] : corner \in corners}),
         bottom |-> SetMax({0} \cup {corner[2] : corner \in corners})]

\* The rock points of all structures, or the first error of rock_points.
RECURSIVE all_rock_points(_, _, _)
all_rock_points(structures, s, result) ==
    IF s > Len(structures)
    THEN Ok(result)
    ELSE WithValue(rock_points(structures[s]),
                   LAMBDA found :
                       IF IsErr(found)
                       THEN found
                       ELSE all_rock_points(structures, s + 1, result \o found.value))

\* ---- part1: Cave, its contents a Vec indexed from 0 ----

Cave_new(boundaries) ==
    IF boundaries.left <= boundaries.right /\ boundaries.top <= boundaries.bottom
    THEN LET width == boundaries.right - boundaries.left + 1
             height == boundaries.bottom - boundaries.top + 1
         IN  Ok([left |-> boundaries.left, top |-> boundaries.top,
                 width |-> width, height |-> height,
                 contents |-> [index \in 0..(width * height - 1) |-> "Air"]])
    ELSE Err("InvalidBoundaries")

Cave_get_index(c, point) ==
    IF point[1] >= c.left /\ point[2] >= c.top
    THEN Some((point[1] - c.left) + (point[2] - c.top) * c.width)
    ELSE None

\* Cave::get and Cave::get_mut: the tile, if the index is one of the Vec
Cave_get(c, point) ==
    LET index == Cave_get_index(c, point)
    IN  IF IsSome(index) /\ index.value \in DOMAIN c.contents
        THEN Some(c.contents[index.value])
        ELSE None

Cave_set(c, point, tile) ==
    [c EXCEPT !.contents[Cave_get_index(c, point).value] = tile]

\* The loop of Cave::simulate_sand with the grain at (x, y): where the grain
\* is when the loop is left, and whether for its rest or for a None.
RECURSIVE Cave_fall(_, _, _)
Cave_fall(c, x, y) ==
    LET down == Cave_get(c, <<x, y + 1>>)
        down_left == Cave_get(c, <<x - 1, y + 1>>)
        down_right == Cave_get(c, <<x + 1, y + 1>>)
    IN  IF down = None THEN [rest |-> FALSE, x |-> x, y |-> y]
        ELSE IF down = Some("Air") THEN Cave_fall(c, x, y + 1)
        ELSE IF down_left = None THEN [rest |-> FALSE, x |-> x, y |-> y]
        ELSE IF down_left = Some("Air") THEN Cave_fall(c, x - 1, y + 1)
        ELSE IF down_right = None THEN [rest |-> FALSE, x |-> x, y |-> y]
        ELSE IF down_right = Some("Air") THEN Cave_fall(c, x + 1, y + 1)
        ELSE [rest |-> IsSome(Cave_get(c, <<x, y>>)), x |-> x, y |-> y]

\* Cave::simulate_sand: the cave after it, what it returned, and whether the
\* debug_assert_eq!(*tile, Air) of a resting grain failed.
Cave_simulate_sand(c) ==
    WithValue(Cave_fall(c, SOURCE_X, 0),
              LAMBDA grain :
                  IF grain.rest
                  THEN [cave |-> Cave_set(c, <<grain.x, grain.y>>, "Sand"),
                        returned |-> TRUE,
                        assert_failed |-> Cave_get(c, <<grain.x, grain.y>>) # Some("Air")]
                  ELSE [cave |-> c, returned |-> FALSE, assert_failed |-> FALSE])

\* The loop of parse_cave over the rock points from the n-th on.
RECURSIVE Cave_with_rocks(_, _, _)
Cave_with_rocks(c, rocks, n) ==
    IF n > Len(rocks)
    THEN c
    ELSE WithValue(IF IsSome(Cave_get(c, rocks[n])) THEN Cave_set(c, rocks[n], "Rock") ELSE c,
                   LAMBDA with_rock : Cave_with_rocks(with_rock, rocks, n + 1))

\* parse_cave after parse_rock_structures
parse_cave(structures) ==
    LET c == Cave_new(find_boundaries(structures))
        rocks == all_rock_points(structures, 1, <<>>)
    IN  IF IsErr(c) THEN c
        ELSE IF IsErr(rocks) THEN rocks
        ELSE Ok(Cave_with_rocks(c.value, rocks.value, 1))

\* ---- part2: Cave2, its contents a HashMap from points to tiles ----

Cave2_new(boundaries) ==
    IF boundaries.left <= boundaries.right /\ boundaries.top <= boundaries.bottom
    THEN Ok([height |-> boundaries.bottom - boundaries.top + 1,
             contents |-> [point \in {} |-> "Air"]])
    ELSE Err("InvalidBoundaries")

\* Cave2::get with the floor one row higher, directly under the lowest rock.
Cave2_get_floor_at_height(c, point) ==
    IF point[2] = c.height
    THEN "Rock"
    ELSE IF point \in DOMAIN c.contents THEN c.contents[point] ELSE "Air"

Cave2_get(c, point) ==
    IF point[2] = c.height + 1
    THEN "Rock"
    ELSE IF point \in DOMAIN c.contents THEN c.contents[point] ELSE "Air"

Cave2_set(c, point, tile) ==
    [c EXCEPT !.contents = [key \in DOMAIN c.contents \cup {point} |->
                               IF key = point THEN tile ELSE c.contents[key]]]

\* The loop of Cave2::simulate_sand with the grain at (x, y): where the
\* grain cannot move any more.
RECURSIVE Cave2_fall(_, _, _)
Cave2_fall(c, x, y) ==
    IF Cave2_get(c, <<x, y + 1>>) = "Air" THEN Cave2_fall(c, x, y + 1)
    ELSE IF Cave2_get(c, <<x - 1, y + 1>>) = "Air" THEN Cave2_fall(c, x - 1, y + 1)
    ELSE IF Cave2_get(c, <<x + 1, y + 1>>) = "Air" THEN Cave2_fall(c, x + 1, y + 1)
    ELSE <<x, y>>

Cave2_simulate_sand(c) ==
    WithValue(Cave2_fall(c, SOURCE_X, 0),
              LAMBDA grain :
                  IF Cave2_get(c, grain) = "Air"
                  THEN [cave |-> Cave2_set(c, grain, "Sand"), returned |-> TRUE]
                  ELSE [cave |-> c, returned |-> FALSE])

RECURSIVE Cave2_with_rocks(_, _, _)
Cave2_with_rocks(c, rocks, n) ==
    IF n > Len(rocks)
    THEN c
    ELSE WithValue(Cave2_set(c, rocks[n], "Rock"),
                   LAMBDA with_rock : Cave2_with_rocks(with_rock, rocks, n + 1))

\* parse_cave_2 after parse_rock_structures
parse_cave_2(structures) ==
    LET c == Cave2_new(find_boundaries(structures))
        rocks == all_rock_points(structures, 1, <<>>)
    IN  IF IsErr(c) THEN c
        ELSE IF IsErr(rocks) THEN rocks
        ELSE Ok(Cave2_with_rocks(c.value, rocks.value, 1))

\* ---- the two functions, one step for each call of simulate_sand ----

InitDay14(function) ==
    /\ rock_structures \in RockStructures
    /\ d14_fn = function
    /\ debug_assertions \in BOOLEAN
    /\ d14_pc = "called"
    /\ cave = None
    /\ sand_count = 0
    /\ d14_result = None
    /\ IdleNotDay14

\* let mut cave = parse_cave(input)?; let mut sand_count = 0;
\* with parse_cave_2 in part2.
D14_Parse(parsed) ==
    /\ d14_pc = "called"
    /\ IF IsErr(parsed)
       THEN /\ d14_pc' = "returned"
            /\ d14_result' = Some(parsed)
            /\ cave' = cave
       ELSE /\ d14_pc' = "loop"
            /\ cave' = parsed.value
            /\ d14_result' = d14_result
    /\ UNCHANGED <<rock_structures, d14_fn, sand_count, debug_assertions>>
    /\ UNCHANGED NotDay14

D14_Part1Parse ==
    /\ d14_fn = "part1"
    /\ \E parsed \in {parse_cave(rock_structures)} : D14_Parse(parsed)

\* part1: one evaluation of `while cave.simulate_sand()`, with the body or
\* the Ok(sand_count) that follows it.
D14_Part1Simulate ==
    /\ d14_fn = "part1"
    /\ d14_pc = "loop"
    /\ sand_count < MaxGrains
    /\ \E call \in {Cave_simulate_sand(cave)} :
         IF call.assert_failed /\ debug_assertions
         THEN /\ d14_pc' = "panicked"
              /\ d14_result' = Some(Panic)
              /\ UNCHANGED <<cave, sand_count>>
         ELSE IF call.returned
         THEN /\ cave' = call.cave
              /\ sand_count' = sand_count + 1
              /\ UNCHANGED <<d14_pc, d14_result>>
         ELSE /\ d14_pc' = "returned"
              /\ d14_result' = Some(Ok(sand_count))
              /\ UNCHANGED <<cave, sand_count>>
    /\ UNCHANGED <<rock_structures, d14_fn, debug_assertions>>
    /\ UNCHANGED NotDay14

D14_Part2Parse ==
    /\ d14_fn = "part2"
    /\ \E parsed \in {parse_cave_2(rock_structures)} : D14_Parse(parsed)

\* part2: the same for Cave2
D14_Part2Simulate ==
    /\ d14_fn = "part2"
    /\ d14_pc = "loop"
    /\ \E call \in {Cave2_simulate_sand(cave)} :
         IF call.returned
         THEN /\ cave' = call.cave
              /\ sand_count' = sand_count + 1
              /\ UNCHANGED <<d14_pc, d14_result>>
         ELSE /\ d14_pc' = "returned"
              /\ d14_result' = Some(Ok(sand_count))
              /\ UNCHANGED <<cave, sand_count>>
    /\ UNCHANGED <<rock_structures, d14_fn, debug_assertions>>
    /\ UNCHANGED NotDay14

InitDay14Part1 == InitDay14("part1")
NextDay14Part1 == D14_Part1Parse \/ D14_Part1Simulate
SpecDay14Part1 == InitDay14Part1 /\ [][NextDay14Part1]_vars

InitDay14Part2 == InitDay14("part2")
NextDay14Part2 == D14_Part2Parse \/ D14_Part2Simulate
SpecDay14Part2 == InitDay14Part2 /\ [][NextDay14Part2]_vars

\* ---- what the two functions are to compute ----

SOURCE == <<SOURCE_X, 0>>

\* The rock tiles the structures describe, when every segment of them is
\* horizontal or vertical.
RocksParse == all_rock_points(rock_structures, 1, <<>>)
Rocks == {RocksParse.value[n] : n \in DOMAIN RocksParse.value}

\* The bounding box of the cave with these rocks.
BoundingBox(rocks) ==
    [left |-> SetMin({SOURCE_X} \cup {rock[1] : rock \in rocks}),
     right |-> SetMax({SOURCE_X} \cup {rock[1] : rock \in rocks}),
     bottom |-> SetMax({0} \cup {rock[2] : rock \in rocks})]

InBox(box, point) ==
    /\ box.left <= point[1] /\ point[1] <= box.right
    /\ 0 <= point[2] /\ point[2] <= box.bottom

\* A grain at (x, y) over the blocked tiles: it moves down, else down-left,
\* else down-right, leaves when the position it would move to is outside the
\* box, and rests when all three are blocked.
RECURSIVE GrainInBox(_, _, _, _)
GrainInBox(box, blocked, x, y) ==
    IF ~InBox(box, <<x, y + 1>>) THEN None
    ELSE IF <<x, y + 1>> \notin blocked THEN GrainInBox(box, blocked, x, y + 1)
    ELSE IF ~InBox(box, <<x - 1, y + 1>>) THEN None
    ELSE IF <<x - 1, y + 1>> \notin blocked THEN GrainInBox(box, blocked, x - 1, y + 1)
    ELSE IF ~InBox(box, <<x + 1, y + 1>>) THEN None
    ELSE IF <<x + 1, y + 1>> \notin blocked THEN GrainInBox(box, blocked, x + 1, y + 1)
    ELSE Some(<<x, y>>)

\* The number of grains that rest before the first one leaves the box; None
\* when the source is plugged and no grain ever leaves.
RECURSIVE GrainsBeforeAbyss(_, _, _)
GrainsBeforeAbyss(box, blocked, rested) ==
    WithValue(GrainInBox(box, blocked, SOURCE_X, 0),
              LAMBDA grain :
                  IF grain = None THEN Some(rested)
                  ELSE IF grain.value \in blocked THEN None
                  ELSE GrainsBeforeAbyss(box, blocked \cup {grain.value}, rested + 1))

GrainsInBox(rocks) ==
    WithValue(BoundingBox(rocks), LAMBDA box : GrainsBeforeAbyss(box, rocks, 0))

\* C14: part1 returns the number of grains that come to rest before the
\* first grain leaves the bounding box of the cave: whenever that number
\* exists, part1 counts no further than it, does not panic, and returns
\* Ok of it.
C14_Part1CountsGrainsInBox ==
    (d14_fn = "part1" /\ d14_pc \in {"loop", "returned", "panicked"} /\ IsOk(RocksParse))
        => WithValue(WithValue(Rocks, GrainsInBox),
                     LAMBDA expected :
                         IsSome(expected) =>
                             /\ sand_count <= expected.value
                             /\ d14_pc # "panicked"
                             /\ d14_pc = "returned" => d14_result = Some(Ok(expected.value)))

\* The tiles a grain can move to from the tiles of `from`, over a floor in
\* the row floor_y.
SandMoves(rocks, floor_y, from) ==
    {to \in UNION {{<<at[1], at[2] + 1>>, <<at[1] - 1, at[2] + 1>>, <<at[1] + 1, at[2] + 1>>} :
                     at \in from} :
        to \notin rocks /\ to[2] < floor_y}

\* The tiles sand can get to from the tiles of `reached`.
RECURSIVE SandReach(_, _, _)
SandReach(rocks, floor_y, reached) ==
    WithValue(reached \cup SandMoves(rocks, floor_y, reached),
              LAMBDA more : IF more = reached THEN reached
                            ELSE SandReach(rocks, floor_y, more))

\* The grains that come to rest before the source is blocked, with the floor
\* at the largest rock y + 2: one on every tile that sand can get to.
GrainsUntilSourceBlocked(rocks) ==
    WithValue(SetMax({rock[2] : rock \in rocks}) + 2,
              LAMBDA floor_y : Cardinality(SandReach(rocks, floor_y, {SOURCE}) \ rocks))

MaxSensorX == 1
MaxRadius == 1

\* Point { x, y } is [x |-> x, y |-> y]
manhattan_distance(self, other) == Abs(self.x - other.x) + Abs(self.y - other.y)

SensorReport_new(sensor_position, beacon_position) ==
    [sensor_position |-> sensor_position,
     beacon_position |-> beacon_position,
     exclusion_radius |-> manhattan_distance(sensor_position, beacon_position)]

\* What SensorReport::from_str returns for the lines of the model.
SensorReports ==
    {SensorReport_new([x |-> sensor_x, y |-> sensor_y],
                      [x |-> sensor_x + dx, y |-> sensor_y + dy]) :
        sensor_x \in 0..MaxSensorX, sensor_y \in 0..1,
        dx \in -MaxRadius..MaxRadius, dy \in -MaxRadius..MaxRadius}
    \cap [sensor_position : [x : Int, y : Int], beacon_position : [x : Int, y : Int],
          exclusion_radius : 0..MaxRadius]

\* parse_sensor_reports on an input of at most two lines
SensorReportLists ==
    {<<>>} \cup {<<first>> : first \in SensorReports}
           \cup {<<first, second>> : first \in SensorReports, second \in SensorReports}

\* The rows part1 is asked for.
Rows == (-MaxRadius)..(1 + MaxRadius)

\* The loop of find_boundaries from the n-th report on; left and right are
\* Options. (top and bottom are computed alike and not read by part1.)
RECURSIVE day15_find_boundaries_from(_, _, _, _)
day15_find_boundaries_from(reports, n, left, right) ==
    IF n > Len(reports)
    THEN IF IsSome(left) /\ IsSome(right)
         THEN Some([left |-> left.value, right |-> right.value])
         ELSE None
    ELSE LET x == reports[n].sensor_position.x
             radius == reports[n].exclusion_radius
         IN  day15_find_boundaries_from(
                 reports, n + 1,
                 Some(IF IsSome(left) THEN Min(left.value, x - radius) ELSE x - radius),
                 Some(IF IsSome(right) THEN Max(right.value, x + radius) ELSE x + radius))

day15_find_boundaries(reports) == day15_find_boundaries_from(reports, 1, None, None)

\* The loop of get_tile_contents from the n-th report on.
RECURSIVE get_tile_contents_from(_, _, _)
get_tile_contents_from(reports, n, position) ==
    IF n > Len(reports) THEN "Unknown"
    ELSE IF position = reports[n].beacon_position THEN "Beacon"
    ELSE IF manhattan_distance(position, reports[n].sensor_position)
                <= reports[n].exclusion_radius THEN "NotBeacon"
    ELSE get_tile_contents_from(reports, n + 1, position)

get_tile_contents(reports, position) == get_tile_contents_from(reports, 1, position)

\* part1 after parse_sensor_reports: the row is the half-open range
\* boundaries.left..boundaries.right
day15_part1(reports, row_y) ==
    LET boundaries == day15_find_boundaries(reports)
    IN  IF boundaries = None
        THEN Err("EmptyInput")
        ELSE Ok(Cardinality(
                 {x \in boundaries.value.left..(boundaries.value.right - 1) :
                     get_tile_contents(reports, [x |-> x, y |-> row_y]) = "NotBeacon"}))

InitDay15 ==
    /\ sensor_reports \in SensorReportLists
    /\ d15_row \in Rows
    /\ d15_pc = "called"
    /\ d15_result = None
    /\ IdleNotDay15

D15_Part1 ==
    /\ d15_pc = "called"
    /\ d15_pc' = "returned"
    /\ d15_result' = Some(day15_part1(sensor_reports, d15_row))
    /\ UNCHANGED <<sensor_reports, d15_row>>
    /\ UNCHANGED NotDay15

NextDay15 == D15_Part1

SpecDay15 == InitDay15 /\ [][NextDay15]_vars

\* The reports as a set.
Reports == {sensor_reports[n] : n \in DOMAIN sensor_reports}

\* The columns any sensor of the reports can exclude.
ColumnsInReach ==
    UNION {(report.sensor_position.x - report.exclusion_radius)
               ..(report.sensor_position.x + report.exclusion_radius) : report \in Reports}

\* The positions of the row that lie within the exclusion radius of a sensor
\* and are not the position of a reported beacon.
PositionsWithoutBeacon(row_y) ==
    {x \in ColumnsInReach :
        /\ \E report \in Reports :
               manhattan_distance([x |-> x, y |-> row_y], report.sensor_position)
                   <= report.exclusion_radius
        /\ \A report \in Reports : [x |-> x, y |-> row_y] # report.beacon_position}

\* C16: part1(input, y) returns the number of integer x such that (x, y)
\* lies within the exclusion radius of at least one sensor and is not the
\* position of any reported beacon, whatever the order of the reports.
C16_Part1CountsPositionsWithoutBeacon ==
    (d15_pc = "returned" /\ sensor_reports # <<>>)
        => d15_result = Some(Ok(Cardinality(PositionsWithoutBeacon(d15_row))))

\* The same with the reports as they can be measured: no beacon lies
\* nearer to a sensor than, or as near as, the beacon the sensor reports.
ReportsConsistent ==
    \A report \in Reports : \A other \in Reports :
        other.beacon_position # report.beacon_position
            => manhattan_distance(other.beacon_position, report.sensor_position)
                   > report.exclusion_radius

\* What part1 does return on such reports: the count over the columns left
\* of the rightmost column in reach.
D15_Part1MissesRightmostColumn ==
    (d15_pc = "returned" /\ sensor_reports # <<>> /\ ReportsConsistent)
        => d15_result = Some(Ok(Cardinality(
               PositionsWithoutBeacon(d15_row) \ {SetMax(ColumnsInReach)})))

(***************************************************************************)
(*                     day5: the steps of the two cranes                   *)
(***************************************************************************)

\* The model has MaxStacks stacks of at most MaxCrates crates each at the
\* start, steps that ask for at most MaxNumber crates, and at most MaxSteps
\* steps in an input.
MaxStacks == 2
MaxCrates == 1
MaxNumber == 3
MaxSteps == 2

CrateChars == {"A", "B"}

\* What CrateArrangement::try_from returns for the drawings of the model.
CrateArrangements == [1..MaxStacks -> SeqsUpTo(CrateChars, MaxCrates)]

\* What Step::from_str returns for the lines of the model; from and to name
\* stacks of the arrangement.
Steps == [number : 0..MaxNumber, from : 1..MaxStacks, to : 1..MaxStacks]

\* Vec::pop and Vec::push
pop(stack) == SubSeq(stack, 1, Len(stack) - 1)
push(stack, c) == Append(stack, c)

\* The loop of apply_step with remaining iterations to go.
RECURSIVE apply_step_loop(_, _, _)
apply_step_loop(arrangement, step, remaining) ==
    IF remaining = 0
    THEN Ok(arrangement)
    ELSE IF arrangement[step.from] = <<>>
    THEN Err("EmptyStack")
    ELSE WithValue([arrangement EXCEPT ![step.from] = pop(arrangement[step.from])],
                   LAMBDA popped :
                       apply_step_loop(
                           [popped EXCEPT ![step.to] =
                               push(popped[step.to],
                                    arrangement[step.from][Len(arrangement[step.from])])],
                           step, remaining - 1))

apply_step(arrangement, step) == apply_step_loop(arrangement, step, step.number)

\* apply_step_2. `from_stack.len() - number` on usize: when number is the
\* larger, a build with overflow checks panics at the subtraction, and a
\* build without them gets 2^64 - (number - len), which is past the end of
\* the stack: split_off panics. Both builds panic.
apply_step_2(arrangement, step) ==
    IF step.number > Len(arrangement[step.from])
    THEN Panic
    ELSE LET from_stack == arrangement[step.from]
             at == Len(from_stack) - step.number
             crates == SubSeq(from_stack, at + 1, Len(from_stack))
         IN  WithValue([arrangement EXCEPT ![step.from] = SubSeq(from_stack, 1, at)],
                       LAMBDA taken :
                           Ok([taken EXCEPT ![step.to] = taken[step.to] \o crates]))

\* top_crates: the last crate of every stack
top_crates(arrangement) ==
    IF \E stack \in DOMAIN arrangement : arrangement[stack] = <<>>
    THEN Err("EmptyStack")
    ELSE Ok([stack \in DOMAIN arrangement |-> arrangement[stack][Len(arrangement[stack])]])

apply_step_of(variant, arrangement, step) ==
    IF variant = "part1" THEN apply_step(arrangement, step)
                         ELSE apply_step_2(arrangement, step)

InitDay5 ==
    /\ crate_arrangement \in CrateArrangements
    /\ crane \in {"part1", "part2"}
    /\ d5_pc = "loop"
    /\ steps_applied = 0
    /\ d5_result = None
    /\ IdleNotDay5

\* One iteration of `for step in steps`:
\* crate_arrangement = apply_step(crate_arrangement, step)?;
D5_ApplyStep ==
    /\ d5_pc = "loop"
    /\ steps_applied < MaxSteps
    /\ \E step \in Steps :
       \E applied \in {apply_step_of(crane, crate_arrangement, step)} :
         IF applied = Panic
         THEN /\ d5_pc' = "panicked"
              /\ d5_result' = Some(Panic)
              /\ UNCHANGED <<crate_arrangement, steps_applied>>
         ELSE IF IsErr(applied)
         THEN /\ d5_pc' = "returned"
              /\ d5_result' = Some(applied)
              /\ UNCHANGED <<crate_arrangement, steps_applied>>
         ELSE /\ crate_arrangement' = applied.value
              /\ steps_applied' = steps_applied + 1
              /\ UNCHANGED <<d5_pc, d5_result>>
    /\ UNCHANGED crane
    /\ UNCHANGED NotDay5

\* The steps are exhausted: top_crates(crate_arrangement)
D5_TopCrates ==
    /\ d5_pc = "loop"
    /\ d5_pc' = "returned"
    /\ d5_result' = Some(top_crates(crate_arrangement))
    /\ UNCHANGED <<crate_arrangement, crane, steps_applied>>
    /\ UNCHANGED NotDay5

NextDay5 == D5_ApplyStep \/ D5_TopCrates

SpecDay5 == InitDay5 /\ [][NextDay5]_vars

\* The crates of a stack, however they are ordered.
CratesOf(stack) == [c \in CrateChars |-> Cardinality({n \in DOMAIN stack : stack[n] = c})]

TotalCrates(arrangement) ==
    LET RECURSIVE total(_)
        total(n) == IF n = 0 THEN 0 ELSE Len(arrangement[n]) + total(n - 1)
    IN  total(Len(arrangement))

\* The two cranes have moved the same crates between the same stacks.
SameCratesMoved(first, second) ==
    /\ DOMAIN first = DOMAIN second
    /\ \A stack \in DOMAIN first : CratesOf(first[stack]) = CratesOf(second[stack])

\* For every step that both cranes carry out on the arrangement, they move
\* the same crates between the same stacks and leave the total unchanged.
SucceedingStepsAgree(arrangement) ==
    \A step \in Steps :
        WithValue(<<apply_step(arrangement, step), apply_step_2(arrangement, step)>>,
                  LAMBDA done :
                      (IsOk(done[1]) /\ IsOk(done[2])) =>
                          /\ SameCratesMoved(done[1].value, done[2].value)
                          /\ TotalCrates(done[1].value) = TotalCrates(arrangement)
                          /\ TotalCrates(done[2].value) = TotalCrates(arrangement))

\* C17: a step that asks for more crates than its source stack holds is
\* reported as Err(EmptyStack) by apply_step and by apply_step_2, and for
\* every step that succeeds both move the same crates between the same
\* stacks, so that the total number of crates is unchanged.
C17_BothCranesReportEmptyStack ==
    d5_pc = "loop" =>
        /\ \A step \in Steps :
               step.number > Len(crate_arrangement[step.from]) =>
                   /\ apply_step(crate_arrangement, step) = Err("EmptyStack")
                   /\ apply_step_2(crate_arrangement, step) = Err("EmptyStack")
        /\ SucceedingStepsAgree(crate_arrangement)

\* What does hold: apply_step_2 panics on such a step; apply_step reports
\* it as Err(EmptyStack) unless it moves crates from a stack that is not
\* empty to the same stack, which it carries out; and the steps that
\* succeed agree.
D5_Part2PanicsOnEmptyStack ==
    d5_pc = "loop" =>
        /\ \A step \in Steps :
               step.number > Len(crate_arrangement[step.from]) =>
                   /\ apply_step(crate_arrangement, step) =
                          IF step.from = step.to /\ crate_arrangement[step.from] # <<>>
                          THEN Ok(crate_arrangement)
                          ELSE Err("EmptyStack")
                   /\ apply_step_2(crate_arrangement, step) = Panic
        /\ SucceedingStepsAgree(crate_arrangement)

====
